---- MODULE Spec2Model ----
(***************************************************************************)
(* 360Extractor: the frame-extraction worker (core/processor.py), the      *)
(* window that drives it (ui/main_window.py), the camera layouts           *)
(* (core/geometry.py) and the CAMM telemetry decoder                       *)
(* (utils/camm_parser.py).                                                 *)
(***************************************************************************)
EXTENDS Integers, Sequences, FiniteSets, TLC

(***************************************************************************)
(* Bounds of the model.                                                    *)
(***************************************************************************)
\* garbage bytes of the CAMM streams are drawn from 0..MaxGarbage (and 255)
MaxGarbage == 7
\* blur scores are ScoreUnit * (0..MaxScore)
MaxScore == 2
\* the window creates at most MaxWorkers workers
MaxWorkers == 2
\* the window's queue holds 1..MaxJobs jobs
MaxJobs == 2
\* a good video of the window's queue has MaxFramesGui frames
MaxFramesGui == 2
\* a video of the command line's queue has 0..MaxFrames frames
MaxFrames == 4
\* a GPX file holds 0..MaxPoints track points
MaxPoints == 3
\* a container holds 0..MaxStreams streams
MaxStreams == 3
\* get_gps_at_time is asked for the seconds -1..MaxTime
MaxTime == 11

\* byte strings of every length up to MaxBytes are decoded
MaxBytes == 6

\* ------------------------------------------------------------------------
\* Small helpers
\* ------------------------------------------------------------------------
Range(s) == {s[x] : x \in DOMAIN s}

RECURSIVE SumSeq(_)
SumSeq(s) == IF s = <<>> THEN 0 ELSE Head(s) + SumSeq(Tail(s))

Min(a, b) == IF a < b THEN a ELSE b

Max(a, b) == IF a > b THEN a ELSE b

\* ------------------------------------------------------------------------
\* core/geometry.py: GeometryProcessor.generate_views
\*
\* An angle is a record [t, a, b, off]:
\*   t = "q"        : the number a/b + off (degrees)
\*   t = "fibyaw"   : the yaw  degrees(atan2(x, z)) % 360 of spiral point a of b
\*   t = "fibpitch" : the pitch degrees(asin(y)) of spiral point a of b, + off
\* ------------------------------------------------------------------------
Deg(a, b, off) == [t |-> "q", a |-> a, b |-> b, off |-> off]

ViewNames ==
  << "View_0", "View_1", "View_2", "View_3", "View_4", "View_5", "View_6",
     "View_7", "View_8", "View_9", "View_10", "View_11", "View_12", "View_13",
     "View_14", "View_15", "View_16", "View_17", "View_18", "View_19",
     "View_20", "View_21", "View_22", "View_23", "View_24", "View_25",
     "View_26", "View_27", "View_28", "View_29", "View_30", "View_31",
     "View_32", "View_33", "View_34", "View_35", "View_36" >>

\* f"View_{i}"
ViewName(i) == ViewNames[i + 1]

MkView(name, yaw, pitch) == [name |-> name, yaw |-> yaw, pitch |-> pitch, roll |-> 0]

RingViews(n, pitch_offset) ==
  [x \in 1..n |-> MkView(ViewName(x - 1), Deg((x - 1) * 360, n, 0), Deg(0, 1, pitch_offset))]

CubeViews(pitch_offset) ==
  << MkView("Front", Deg(0, 1, 0), Deg(0, 1, pitch_offset)),
     MkView("Right", Deg(90, 1, 0), Deg(0, 1, pitch_offset)),
     MkView("Back", Deg(180, 1, 0), Deg(0, 1, pitch_offset)),
     MkView("Left", Deg(270, 1, 0), Deg(0, 1, pitch_offset)),
     MkView("Up", Deg(0, 1, 0), Deg(90, 1, 0)),
     MkView("Down", Deg(0, 1, 0), Deg(-90, 1, 0)) >>

FibViews(n, pitch_offset) ==
  [x \in 1..n |->
     MkView(ViewName(x - 1),
            [t |-> "fibyaw", a |-> x - 1, b |-> n, off |-> 0],
            [t |-> "fibpitch", a |-> x - 1, b |-> n, off |-> pitch_offset])]

\* the cube tested before the ring
generate_views_cube_first(n, pitch_offset, layout_mode) ==
  IF n = 6
    THEN CubeViews(pitch_offset)
  ELSE IF layout_mode = "ring" \/ (layout_mode = "adaptive" /\ n < 6)
    THEN RingViews(n, pitch_offset)
  ELSE FibViews(n, pitch_offset)

\* adaptive keeps the ring up to six cameras
generate_views_ring_to_six(n, pitch_offset, layout_mode) ==
  IF layout_mode = "ring" \/ (layout_mode = "adaptive" /\ n <= 6)
    THEN RingViews(n, pitch_offset)
  ELSE IF n = 6
    THEN CubeViews(pitch_offset)
  ELSE FibViews(n, pitch_offset)

generate_views(n, pitch_offset, layout_mode) ==
  IF layout_mode = "ring" \/ (layout_mode = "adaptive" /\ n < 6)
    THEN RingViews(n, pitch_offset)
  ELSE IF n = 6
    THEN CubeViews(pitch_offset)
  ELSE FibViews(n, pitch_offset)

\* generate_views' documented range of n
MinCameras == 2

MaxCameras == 36

LayoutModes == {"ring", "cube", "fibonacci", "adaptive"}

PitchOffsets == {-20, 0, 20}

\* ------------------------------------------------------------------------
\* utils/camm_parser.py: parse_camm_data
\*
\* A stream is a sequence of bytes (0..255); offsets are 0-based as in the
\* code.  A double or a float is kept as its little-endian bytes, and the
\* comparisons on doubles are made on those bytes: for IEEE-754 numbers the
\* order of the magnitudes is the order of the bit patterns with the sign
\* bit cleared, and a NaN (pattern above infinity's) fails "<= bound".
\* ------------------------------------------------------------------------
\* struct.unpack_from('<H', raw, off)
U16(raw, off) == raw[off + 1] + 256 * raw[off + 2]

Slice(raw, off, len) == [x \in 1..len |-> raw[off + x]]

\* the bytes of |x|, most significant first
MagBE(d) == [x \in 1..8 |-> IF x = 1 THEN d[8] % 128 ELSE d[9 - x]]

RECURSIVE LexLess(_, _)
LexLess(p, q) ==
  IF p = <<>> THEN FALSE
  ELSE IF Head(p) # Head(q) THEN Head(p) < Head(q)
  ELSE LexLess(Tail(p), Tail(q))

\* struct.pack('>d', 90.0), struct.pack('>d', 180.0), struct.pack('>d', 0.0001)
Bits90 == <<64, 86, 128, 0, 0, 0, 0, 0>>

Bits180 == <<64, 102, 128, 0, 0, 0, 0, 0>>

BitsEps == <<63, 26, 54, 226, 235, 28, 67, 45>>

\* -bound <= d <= bound
AbsLeq(d, bound) == ~LexLess(bound, MagBE(d))

\* abs(d) > 0.0001 (d not a NaN)
AbsGtEps(d) == LexLess(BitsEps, MagBE(d))

\* a validity test that keeps a magnitude of exactly 0.0001
ValidFixInclusive(lat, lon) ==
  /\ AbsLeq(lat, Bits90)
  /\ AbsLeq(lon, Bits180)
  /\ (~LexLess(MagBE(lat), BitsEps) \/ ~LexLess(MagBE(lon), BitsEps))

\* line 69: the validity test of a decoded fix
ValidFix(lat, lon) ==
  /\ AbsLeq(lat, Bits90)
  /\ AbsLeq(lon, Bits180)
  /\ (AbsGtEps(lat) \/ AbsGtEps(lon))

\* lines 44-59: the payload size of a packet type, -1 when unknown
PayloadSize(packet_type) ==
  CASE packet_type = 6 -> 20
    [] packet_type = 2 -> 12
    [] packet_type = 3 -> 12
    [] packet_type = 1 -> 8
    [] packet_type = 0 -> 0
    [] OTHER -> -1

\* a scan that steps over whole 4-byte headers instead of single bytes
RECURSIVE ScanHeaderAligned(_, _)
ScanHeaderAligned(raw, scan_ptr) ==
  IF ~(scan_ptr < Len(raw) - 4) THEN -1
  ELSE IF U16(raw, scan_ptr) = 0 /\ U16(raw, scan_ptr + 2) \in {1, 2, 3, 6}
    THEN scan_ptr
  ELSE ScanHeaderAligned(raw, scan_ptr + 4)

\* a scan that resumes one byte before the header it found
RECURSIVE ScanHeaderBehind(_, _)
ScanHeaderBehind(raw, scan_ptr) ==
  IF ~(scan_ptr < Len(raw) - 4) THEN -1
  ELSE IF U16(raw, scan_ptr) = 0 /\ U16(raw, scan_ptr + 2) \in {1, 2, 3, 6}
    THEN scan_ptr - 1
  ELSE ScanHeaderBehind(raw, scan_ptr + 1)

\* lines 84-99: the resynchronisation scan; the offset found, or -1
RECURSIVE ScanHeader(_, _)
ScanHeader(raw, scan_ptr) ==
  IF ~(scan_ptr < Len(raw) - 4) THEN -1
  ELSE IF U16(raw, scan_ptr) = 0 /\ U16(raw, scan_ptr + 2) \in {1, 2, 3, 6}
    THEN scan_ptr
  ELSE ScanHeader(raw, scan_ptr + 1)

\* lines 25-102: one iteration of the decoding loop, from a state
\* [offset, samples, running] with running = TRUE
CammIteration(raw, st) ==
  LET length == Len(raw)
      offset0 == st.offset
  IN
  IF ~(offset0 < length) \/ offset0 + 4 > length
    THEN [st EXCEPT !.running = FALSE]
  ELSE
    LET packet_type == U16(raw, offset0 + 2)
        offset == offset0 + 4
        payload_size == PayloadSize(packet_type)
    IN
    IF payload_size >= 0
      THEN IF offset + payload_size > length
             THEN [st EXCEPT !.offset = offset, !.running = FALSE]
           ELSE
             LET lat == Slice(raw, offset, 8)
                 lon == Slice(raw, offset + 8, 8)
                 alt == Slice(raw, offset + 16, 4)
                 got == IF packet_type = 6 /\ ValidFix(lat, lon)
                          THEN Append(st.samples, [lat |-> lat, lon |-> lon, alt |-> alt])
                          ELSE st.samples
             IN [offset |-> offset + payload_size, samples |-> got, running |-> TRUE]
    ELSE
      LET found == ScanHeader(raw, offset0 + 1)
      IN IF found >= 0
           THEN [st EXCEPT !.offset = found]
           ELSE [st EXCEPT !.offset = offset, !.running = FALSE]

\* lines 107-118: timestamps, as fractions <<numerator, denominator>> of a second
CammTimestamps(samples, duration) ==
  [x \in 1..Len(samples) |->
     IF duration > 0 THEN <<(x - 1) * duration, Len(samples)>>
     ELSE <<(x - 1) * 2, 10>>]

\* a well-formed GPS record: reserved = 0, type = 6, then '<ddf'
GpsRecord(payload) == <<0, 0, 6, 0>> \o payload

\* struct.pack('<ddf', 48.8566, 2.3522, 35.0)
FixParis == <<118, 224, 156, 17, 165, 109, 72, 64, 168, 53, 205, 59, 78, 209, 2, 64, 0, 0, 12, 66>>

\* struct.pack('<ddf', -33.5, 151.25, 12.5)
FixSydney == <<0, 0, 0, 0, 0, 192, 64, 192, 0, 0, 0, 0, 0, 232, 98, 64, 0, 0, 72, 65>>

\* struct.pack('<ddf', 2.0, 3.0, 1.0)
FixGulf == <<0, 0, 0, 0, 0, 0, 0, 64, 0, 0, 0, 0, 0, 0, 8, 64, 0, 0, 128, 63>>

\* struct.pack('<ddf', 0.0, 0.0, 0.0): the fix line 69 drops
FixNull == [x \in 1..20 |-> 0]

FixPayloads == {FixParis, FixSydney, FixGulf}

FixOf(payload) ==
  [lat |-> Slice(payload, 0, 8), lon |-> Slice(payload, 8, 8), alt |-> Slice(payload, 16, 4)]

GarbageBytes == (0..MaxGarbage) \cup {255}

\* ------------------------------------------------------------------------
\* core/job.py and the job settings read by process_video
\*
\* A job of the model is a record of the caller's inputs:
\*   cls            "Job" for an instance of core/job.py's dataclass, "Full"
\*                  for a job object that also has the attributes resolution,
\*                  adaptive_mode, adaptive_threshold and export_telemetry
\*   stem           the video's file name without extension
\*   openable       cv2.VideoCapture(file_path).isOpened()
\*   dir_ok         the output directory exists or can be created
\*   nframes        the number of frames cap.read() delivers
\*   frame_count    CAP_PROP_FRAME_COUNT
\*   fps100         CAP_PROP_FPS, in hundredths
\*   interval_unit, interval10 (interval_value in tenths), camera_count,
\*   pitch_offset, layout_mode, active_cameras (a set of indices, or
\*   NoSubset for None), output_format, blur_filter_enabled,
\*   smart_blur_enabled, blur_threshold, adaptive_mode, ai_mode,
\*   naming_mode, image_pattern, mask_pattern
\* ------------------------------------------------------------------------
NoSubset == {-1}

\* the attributes and properties of core/job.py's Job
JobAttributes ==
  {"file_path", "status", "settings", "active_cameras", "filename",
   "output_format", "output_dir", "smart_blur", "summary"}

\* the attributes process_video reads from its job beyond those
ProcessVideoReads == {"resolution", "adaptive_mode", "adaptive_threshold", "export_telemetry"}

HasAttribute(job, attr) ==
  IF job.cls = "Job" THEN attr \in JobAttributes ELSE attr \in JobAttributes \cup ProcessVideoReads

\* utils/file_manager.py: FileManager.ensure_directory; raised is whether an
\* OSError leaves the call
ensure_directory(dir_ok) == [result |-> dir_ok, raised |-> FALSE]

\* lines 96-102: the extension of the output format
Lower(fmt) == IF fmt = "JPG" THEN "jpg" ELSE IF fmt = "PNG" THEN "png" ELSE fmt

Ext(job) ==
  LET fmt0 == Lower(job.output_format)
      fmt == IF fmt0 \notin {"jpg", "png", "tiff"} THEN "jpg" ELSE fmt0
  IN IF fmt = "tiff" THEN ".tif" ELSE IF fmt = "png" THEN ".png" ELSE ".jpg"

\* lines 122-128: the extraction interval, in frames
Interval(job) ==
  IF job.interval_unit = "Frames"
    THEN Max(10, job.interval10) \div 10
    ELSE Max(1000, job.fps100 * job.interval10) \div 1000

\* lines 118-119
TotalFramesVideo(job) == IF job.frame_count <= 0 THEN 1 ELSE job.frame_count

\* line 173
Views(job) == generate_views(job.camera_count, job.pitch_offset, job.layout_mode)

\* lines 183-189: the names that get a reprojection map
Maps(job) ==
  {Views(job)[x].name : x \in {y \in 1..Len(Views(job)) :
      job.active_cameras = NoSubset \/ (y - 1) \in job.active_cameras}}

\* lines 138-143
AiModeInternal(job) ==
  IF job.ai_mode = "Skip Frame" THEN "skip_frame"
  ELSE IF job.ai_mode = "Generate Mask" THEN "generate_mask"
  ELSE "none"

process_image_unguarded(mode, model_loaded, has_detection) ==
  IF mode = "none" THEN [img |-> "image", extra |-> "None"]
  ELSE IF mode = "skip_frame"
    THEN IF has_detection THEN [img |-> "None", extra |-> "True"]
         ELSE [img |-> "image", extra |-> "False"]
  ELSE IF mode = "generate_mask" THEN [img |-> "image", extra |-> "mask"]
  ELSE [img |-> "image", extra |-> "None"]

\* core/ai_model.py: AIService.process_image
process_image(mode, model_loaded, has_detection) ==
  IF mode = "none" \/ ~model_loaded THEN [img |-> "image", extra |-> "None"]
  ELSE IF mode = "skip_frame"
    THEN IF has_detection THEN [img |-> "None", extra |-> "True"]
         ELSE [img |-> "image", extra |-> "False"]
  ELSE IF mode = "generate_mask" THEN [img |-> "image", extra |-> "mask"]
  ELSE [img |-> "image", extra |-> "None"]

\* ------------------------------------------------------------------------
\* The blur gate (process_video, lines 245-280)
\* ------------------------------------------------------------------------
\* line 152: deque(maxlen=10)
HistoryMax == 10

\* line 263: consecutive_blur_skips > 5
ForceAfter == 5

\* a list that never evicts
DequeAppendUnbounded(history, x) == Append(history, x)

\* deque.append with maxlen = 10
DequeAppend(history, x) ==
  IF Len(history) >= HistoryMax THEN Append(Tail(history), x) ELSE Append(history, x)

\* the override taken one candidate early: consecutive_blur_skips >= 5
SmartBlurEarly(score, blur_threshold, history, skips) ==
  LET floor == score < blur_threshold
      adaptive == /\ ~floor
                  /\ Len(history) > 0
                  /\ score * 10 * Len(history) < SumSeq(history) * 6
      judged == floor \/ adaptive
      skips1 == IF judged THEN skips + 1 ELSE skips
      forced == judged /\ skips1 >= ForceAfter
      is_blurry == judged /\ ~forced
  IN [judged |-> judged, forced |-> forced, is_blurry |-> is_blurry,
      skips |-> IF is_blurry THEN skips1 ELSE 0,
      history |-> IF is_blurry THEN history ELSE DequeAppend(history, score)]

\* lines 249-271; score < avg_score * 0.6 with avg_score = sum / len, in integers
SmartBlur(score, blur_threshold, history, skips) ==
  LET floor == score < blur_threshold
      adaptive == /\ ~floor
                  /\ Len(history) > 0
                  /\ score * 10 * Len(history) < SumSeq(history) * 6
      judged == floor \/ adaptive
      skips1 == IF judged THEN skips + 1 ELSE skips
      forced == judged /\ skips1 > ForceAfter
      is_blurry == judged /\ ~forced
  IN [judged |-> judged, forced |-> forced, is_blurry |-> is_blurry,
      skips |-> IF is_blurry THEN skips1 ELSE 0,
      history |-> IF is_blurry THEN history ELSE DequeAppend(history, score)]

\* the threshold itself rejected: score <= blur_threshold
StandardBlurInclusive(score, blur_threshold, history, skips) ==
  [judged |-> score <= blur_threshold, forced |-> FALSE,
   is_blurry |-> score <= blur_threshold, skips |-> skips, history |-> history]

\* lines 273-275
StandardBlur(score, blur_threshold, history, skips) ==
  [judged |-> score < blur_threshold, forced |-> FALSE,
   is_blurry |-> score < blur_threshold, skips |-> skips, history |-> history]

BlurGate(job, score, history, skips) ==
  IF ~job.blur_filter_enabled
    THEN [judged |-> FALSE, forced |-> FALSE, is_blurry |-> FALSE,
          skips |-> skips, history |-> history]
  ELSE IF job.smart_blur_enabled
    THEN SmartBlur(score, job.blur_threshold, history, skips)
  ELSE StandardBlur(score, job.blur_threshold, history, skips)

\* ------------------------------------------------------------------------
\* Output names (process_video, lines 303-348).  A name is a sequence of
\* strings whose concatenation is the file name.
\* ------------------------------------------------------------------------
Digits == <<"0", "1", "2", "3", "4", "5", "6", "7", "8", "9">>

RECURSIVE DecimalOf(_)
DecimalOf(n) == IF n < 10 THEN <<Digits[n + 1]>> ELSE Append(DecimalOf(n \div 10), Digits[(n % 10) + 1])

RECURSIVE ZeroPad(_, _)
ZeroPad(s, width) == IF Len(s) >= width THEN s ELSE ZeroPad(<<"0">> \o s, width)

\* f"{frame_idx:06d}"
Frame06d(frame_idx) == ZeroPad(DecimalOf(frame_idx), 6)

RECURSIVE Replace(_, _, _)
Replace(pattern, key, value) ==
  IF pattern = <<>> THEN <<>>
  ELSE (IF Head(pattern) = key THEN value ELSE <<Head(pattern)>>)
         \o Replace(Tail(pattern), key, value)

\* generate_filename (lines 63-71) over the context of line 307, in its order
generate_filename(pattern, filename, frame, camera, ext) ==
  Replace(Replace(Replace(Replace(pattern, "{filename}", <<filename>>),
                          "{frame}", frame), "{camera}", <<camera>>), "{ext}", <<ext>>)

DefaultImagePattern == <<"{filename}", "_frame", "{frame}", "_", "{camera}">>

DefaultMaskPattern == <<"{filename}", "_frame", "{frame}", "_", "{camera}", "_mask">>

\* an image name without the frame index
SaveNamePerView(job, frame_idx, name) ==
  LET stem == job.stem
      ext == Ext(job)
  IN
  IF job.naming_mode \in {"realityscan", "simple"}
    THEN <<stem, "_", name, ext>>
  ELSE IF job.naming_mode = "custom"
    THEN IF "{ext}" \in Range(job.image_pattern)
           THEN generate_filename(job.image_pattern, stem, Frame06d(frame_idx), name, ext)
           ELSE generate_filename(job.image_pattern, stem, Frame06d(frame_idx), name, ext) \o <<ext>>
  ELSE <<>>

\* lines 317-339: the image's file name; <<>> when no branch names it
SaveName(job, frame_idx, name) ==
  LET stem == job.stem
      ext == Ext(job)
  IN
  IF job.naming_mode \in {"realityscan", "simple"}
    THEN <<stem, "_frame">> \o Frame06d(frame_idx) \o <<"_", name, ext>>
  ELSE IF job.naming_mode = "custom"
    THEN IF "{ext}" \in Range(job.image_pattern)
           THEN generate_filename(job.image_pattern, stem, Frame06d(frame_idx), name, ext)
           ELSE generate_filename(job.image_pattern, stem, Frame06d(frame_idx), name, ext) \o <<ext>>
  ELSE <<>>

\* lines 321-348: the mask's file name
MaskName(job, frame_idx, name) ==
  LET stem == job.stem
      ext == Ext(job)
      save_name == SaveName(job, frame_idx, name)
  IN
  IF job.naming_mode = "realityscan" THEN save_name \o <<".mask.png">>
  ELSE IF job.naming_mode = "simple"
    THEN <<stem, "_frame">> \o Frame06d(frame_idx) \o <<"_", name, "_mask.png">>
  ELSE IF job.naming_mode = "custom"
    THEN LET g == Replace(generate_filename(job.mask_pattern, stem, Frame06d(frame_idx), name, ext),
                          "{image_name}", save_name)
         IN IF "{ext}" \in Range(job.mask_pattern) THEN g ELSE g \o <<".png">>
  ELSE <<>>

\* ------------------------------------------------------------------------
\* core/telemetry.py: TelemetryHandler
\*
\* A timestamp and an interpolated coordinate are rationals <<n, d>>, d > 0:
\* the arithmetic of get_gps_at_time is done exactly, the rounding of the
\* doubles is left out.  The lat, lon and alt of a sample are integers (1e-4
\* degrees or metres).  A GPS sample is [timestamp, lat, lon, alt].
\* ------------------------------------------------------------------------
RInt(x) == <<x, 1>>

RECURSIVE Gcd(_, _)
Gcd(x, y) == IF y = 0 THEN x ELSE Gcd(y, x % y)

\* the fraction in lowest terms, denominator positive
RNorm(p) ==
  LET g == Gcd(IF p[1] < 0 THEN 0 - p[1] ELSE p[1], p[2])
  IN <<p[1] \div g, p[2] \div g>>

RAdd(p, q) == RNorm(<<p[1] * q[2] + q[1] * p[2], p[2] * q[2]>>)

RSub(p, q) == RNorm(<<p[1] * q[2] - q[1] * p[2], p[2] * q[2]>>)

RMul(p, q) == RNorm(<<p[1] * q[1], p[2] * q[2]>>)

\* p / q, q not zero
RDiv(p, q) == IF q[1] > 0 THEN RNorm(<<p[1] * q[2], p[2] * q[1]>>)
              ELSE RNorm(<<0 - p[1] * q[2], 0 - p[2] * q[1]>>)

RLess(p, q) == p[1] * q[2] < q[1] * p[2]

REq(p, q) == RNorm(p) = RNorm(q)

\* bisect.bisect_left(a, x, lo, hi), indexes from 0
RECURSIVE bisect_left(_, _, _, _)
bisect_left(a, x, lo, hi) ==
  IF ~(lo < hi) THEN lo
  ELSE LET mid == (lo + hi) \div 2
       IN IF RLess(a[mid + 1], x) THEN bisect_left(a, x, mid + 1, hi)
          ELSE bisect_left(a, x, lo, mid)

\* what get_gps_at_time returns: None, or (lat, lon, alt)
NoPosition == [none |-> TRUE, lat |-> RInt(0), lon |-> RInt(0), alt |-> RInt(0)]

Position(s) == [none |-> FALSE, lat |-> RInt(s.lat), lon |-> RInt(s.lon), alt |-> RInt(s.alt)]

\* the weights of the interpolation taken from the wrong ends
InterpolateSwapped(p1, p2, ratio) ==
  RAdd(RInt(p2), RMul(RInt(p1 - p2), ratio))

\* lines 232-234: p1 + (p2 - p1) * ratio
Interpolate(p1, p2, ratio) ==
  RAdd(RInt(p1), RMul(RInt(p2 - p1), ratio))

\* get_gps_at_time (lines 202-236)
get_gps_at_time(has_gps, gps_samples, timestamp) ==
  IF ~has_gps \/ gps_samples = <<>> THEN NoPosition
  ELSE
    LET times == [x \in 1..Len(gps_samples) |-> gps_samples[x].timestamp]
        idx == bisect_left(times, timestamp, 0, Len(times))
    IN
    IF idx = 0 THEN Position(gps_samples[1])
    ELSE IF idx >= Len(gps_samples) THEN Position(gps_samples[Len(gps_samples)])
    ELSE
      LET t1 == times[idx]
          t2 == times[idx + 1]
          p1 == gps_samples[idx]
          p2 == gps_samples[idx + 1]
          ratio == RDiv(RSub(timestamp, t1), RSub(t2, t1))
      IN IF REq(t2, t1) THEN Position(gps_samples[idx + 1])
         ELSE [none |-> FALSE,
               lat |-> Interpolate(p1.lat, p2.lat, ratio),
               lon |-> Interpolate(p1.lon, p2.lon, ratio),
               alt |-> Interpolate(p1.alt, p2.alt, ratio)]

\* utils/gpx_parser.py: parse_gpx_data, lines 47-77.  A track point is
\*   [num_ok   lat, lon and ele are numbers (float() does not raise),
\*    lat, lon, ele, has_ele,
\*    time     "ok": an ISO time of epoch second t; "none": no <time>;
\*             "bad": fromisoformat raises,
\*    t]
\* start_time is [set, value]
RECURSIVE GpxPoints(_, _, _)
GpxPoints(trkpts, start_time, parsed_points) ==
  IF trkpts = <<>> THEN parsed_points
  ELSE
    LET pt == Head(trkpts)
        start == IF start_time.set THEN start_time ELSE [set |-> TRUE, value |-> pt.t]
    IN IF pt.num_ok /\ pt.time = "ok"
         THEN GpxPoints(Tail(trkpts), start,
                        Append(parsed_points,
                               [timestamp |-> RInt(pt.t - start.value),
                                lat |-> pt.lat, lon |-> pt.lon,
                                alt |-> IF pt.has_ele THEN pt.ele ELSE 0]))
         ELSE GpxPoints(Tail(trkpts), start_time, parsed_points)

\* parse_gpx_data (lines 7-87): content is [wellformed, trkpts]
parse_gpx_data(gpx_content) ==
  IF ~gpx_content.wellformed THEN <<>>
  ELSE GpxPoints(gpx_content.trkpts, [set |-> FALSE, value |-> 0], <<>>)

\* parse_camm_data, lines 25-102: the decoding loop run to its end
RECURSIVE CammRun(_, _)
CammRun(raw, st) == IF st.running THEN CammRun(raw, CammIteration(raw, st)) ELSE st

\* parse_camm_data (lines 7-121)
parse_camm_data(raw, duration) ==
  LET samples == CammRun(raw, [offset |-> 0, samples |-> <<>>, running |-> TRUE]).samples
  IN [x \in 1..Len(samples) |->
        [timestamp |-> CammTimestamps(samples, duration)[x],
         lat |-> samples[x].lat, lon |-> samples[x].lon, alt |-> samples[x].alt]]

\* the numbers behind the doubles of FixPayloads, in 1e-4 units
FixValue(fix) ==
  CASE fix.lat = <<118, 224, 156, 17, 165, 109, 72, 64>>
         -> [lat |-> 488566, lon |-> 23522, alt |-> 350000]
    [] fix.lat = <<0, 0, 0, 0, 0, 192, 64, 192>>
         -> [lat |-> -335000, lon |-> 1512500, alt |-> 125000]
    [] OTHER -> [lat |-> 20000, lon |-> 30000, alt |-> 10000]

\* a handler after __init__ (lines 17-20)
NewHandler == [has_gps |-> FALSE, gps_samples |-> <<>>]

\* _extract_gpx_data (lines 184-200) on a handler h: the handler and the result
extract_gpx_data(h, env) ==
  LET samples == parse_gpx_data(env.gpx) IN
  IF ~env.gpx_readable THEN [h |-> h, success |-> FALSE]
  ELSE IF samples # <<>> THEN [h |-> [h EXCEPT !.gps_samples = samples], success |-> TRUE]
  ELSE [h |-> h, success |-> FALSE]

\* _extract_camm_data (lines 101-127)
extract_camm_data(h, env) ==
  IF env.camm.raises THEN h
  ELSE LET parsed == parse_camm_data(env.camm.raw, env.duration)
           samples == [x \in 1..Len(parsed) |->
                         [timestamp |-> parsed[x].timestamp] @@ FixValue(parsed[x])]
       IN [has_gps |-> IF samples # <<>> THEN TRUE ELSE h.has_gps, gps_samples |-> samples]

\* _extract_gpmf_data (lines 129-153)
extract_gpmf_data(h, env) ==
  IF env.gpmf.raises THEN h ELSE [h EXCEPT !.gps_samples = env.gpmf.track]

\* _extract_srt_data (lines 155-182)
extract_srt_data(h, env) ==
  IF env.srt.raises THEN h
  ELSE [has_gps |-> IF env.srt.track # <<>> THEN TRUE ELSE h.has_gps,
        gps_samples |-> env.srt.track]

\* lines 62-82: the loop over ffprobe's streams, from stream x, with the
\* index of the first subtitle stream seen (0: None)
RECURSIVE StreamLoop(_, _, _, _)
StreamLoop(h, env, x, subtitle_stream_index) ==
  IF x > Len(env.streams)
    THEN \* lines 85-92
         IF subtitle_stream_index # 0
           THEN LET h1 == extract_srt_data(h, env)
                IN [h |-> h1, ret |-> h1.has_gps, source |-> "srt"]
           ELSE [h |-> h, ret |-> FALSE, source |-> "none"]
  ELSE IF env.streams[x] = "gpmd"
    THEN [h |-> extract_gpmf_data([h EXCEPT !.has_gps = TRUE], env), ret |-> TRUE, source |-> "gpmf"]
  ELSE IF env.streams[x] = "camm"
    THEN [h |-> extract_camm_data([h EXCEPT !.has_gps = TRUE], env), ret |-> TRUE, source |-> "camm"]
  ELSE StreamLoop(h, env, x + 1,
                  IF env.streams[x] = "subtitle" /\ subtitle_stream_index = 0
                    THEN x ELSE subtitle_stream_index)

\* extract_metadata (lines 22-99) on a new handler: the handler afterwards,
\* the value returned and the decoder that was run last
extract_metadata(env) ==
  LET h == NewHandler
      gpx == extract_gpx_data(h, env)
  IN IF env.gpx_exists /\ gpx.success
       THEN [h |-> [gpx.h EXCEPT !.has_gps = TRUE], ret |-> TRUE, source |-> "gpx"]
     ELSE IF ~env.ffprobe_ok THEN [h |-> h, ret |-> FALSE, source |-> "none"]
     ELSE StreamLoop(h, env, 1, 0)

\* ------------------------------------------------------------------------
\* State
\* ------------------------------------------------------------------------
VARIABLES
  jobs,             \* the queue: a sequence of job records (MainWindow.jobs / run_cli's jobs)
  gui,              \* TRUE: MainWindow drives the worker; FALSE: run_cli calls run()
  workers,          \* the ProcessingWorker instances created so far, in creation order
  files,            \* the image and mask files on disk: records [dir, name]
  sigq,             \* signals queued to the window's thread, oldest first
  status,           \* Job.status of every job of the queue
  process_enabled,  \* process_btn.isEnabled()
  cancel_enabled,   \* cancel_btn.isEnabled()
  self_worker,      \* MainWindow.worker: an index of workers, 0 before the first
  dialogs,          \* the open modal message boxes, innermost last
  gv,               \* a call of generate_views: its arguments and result
  camm,             \* a call of parse_camm_data: its arguments and progress
  tel               \* a TelemetryHandler: its video, its fields, the last query

vars == <<jobs, gui, workers, files, sigq, status, process_enabled, cancel_enabled,
          self_worker, dialogs, gv, camm, tel>>

uiVars == <<sigq, status, process_enabled, cancel_enabled, self_worker, dialogs>>

pureVars == <<gv, camm, tel>>

\* ------------------------------------------------------------------------
\* core/processor.py: ProcessingWorker
\*
\* A worker is a record:
\*   is_running, ai_service (created), model_loaded (AIService.model is not None)
\*   pc          where run() stands: "for", "started", "while", "read",
\*               "view", "return", "raise", "finish", "done"
\*   i           the index (from 1) of the job run() is at
\*   cap_pos     frames read from the capture of the current job
\*   cap_open    the capture of the current job is open
\*   frame_idx, vi (index into views of the view the frame is at),
\*   blur_history, consecutive_blur_skips, last_extracted_frame (-1: None)
\*   sig         every signal the worker emitted, in order
\*   log         every view attempt: [job, frame, view, score, judged,
\*               forced, accepted, ai (what the AI gate returned), written
\*               (the name handed to FileManager.save_image, <<>> when the
\*               attempt was dropped), skips]
\*   motion      every pass of the motion gate: [job, frame, score (-1: there
\*               was no reference frame), skipped]
\*   reads       the frames cap.read() returned, over all jobs
\*   ends        how the frame loop of every job that reached it ended:
\*               [job, how ("exhausted": cap.read() failed, "stopped": the
\*               while test failed), cap_pos]
\*   stop_seen   where the worker stood when stop() was first called, and
\*               the handler that called it
\* ------------------------------------------------------------------------
NotStopped == [pc |-> "none", i |-> 0, frame_idx |-> 0, vi |-> 0, cap_pos |-> 0,
               reads |-> 0, nsig |-> 0, by |-> "none"]

\* __init__ (lines 26-40)
NewWorker(queue, loaded) ==
  [is_running |-> TRUE,
   ai_service |-> \E x \in 1..Len(queue) : queue[x].ai_mode # "None",
   model_loaded |-> loaded,
   pc |-> "for", i |-> 1, cap_pos |-> 0, cap_open |-> FALSE,
   frame_idx |-> 0, vi |-> 0,
   blur_history |-> <<>>, consecutive_blur_skips |-> 0, last_extracted_frame |-> -1,
   sig |-> <<>>, log |-> <<>>, motion |-> <<>>, reads |-> 0, ends |-> <<>>, stop_seen |-> NotStopped]

\* Signal.emit: a queued call of the connected slot in the window's thread;
\* run_cli's slots only log.  progress_updated is kept in the worker's sig
\* only: its slot update_progress (main_window.py, lines 929-932) sets the
\* progress bar and the status label, which no other handler reads.
Emit(w, sig) ==
  /\ sigq' = IF gui THEN Append(sigq, [w |-> w] @@ sig) ELSE sigq

Sig(name, arg) == [name |-> name, arg |-> arg]

\* stop() (lines 42-43), called on worker wk by the handler named by
Stopped(wk, by) ==
  [wk EXCEPT !.is_running = FALSE,
             !.stop_seen = IF wk.stop_seen.pc = "none" /\ wk.is_running
                             THEN [pc |-> wk.pc, i |-> wk.i, frame_idx |-> wk.frame_idx,
                                   vi |-> wk.vi, cap_pos |-> wk.cap_pos,
                                   reads |-> wk.reads, nsig |-> Len(wk.sig), by |-> by]
                             ELSE wk.stop_seen]

\* a loop head that returns from run() where the code breaks
RunForReturns(w) ==
  LET wk == workers[w] IN
  /\ wk.pc = "for"
  /\ workers' = [workers EXCEPT ![w].pc =
                   IF wk.i > Len(jobs) THEN "finish"
                   ELSE IF ~wk.is_running THEN "done" ELSE "started"]
  /\ UNCHANGED <<jobs, gui, files, uiVars, pureVars>>

\* run(), lines 48-50 and 61: the loop head
RunFor(w) ==
  LET wk == workers[w] IN
  /\ wk.pc = "for"
  /\ workers' = [workers EXCEPT ![w].pc =
                   IF wk.i > Len(jobs) \/ ~wk.is_running THEN "finish" ELSE "started"]
  /\ UNCHANGED <<jobs, gui, files, uiVars, pureVars>>

\* run(), line 52
RunJobStarted(w) ==
  LET wk == workers[w] IN
  /\ wk.pc = "started"
  /\ workers' = [workers EXCEPT ![w].pc = "setup",
                                ![w].sig = Append(wk.sig, Sig("job_started", wk.i))]
  /\ Emit(w, Sig("job_started", wk.i))
  /\ UNCHANGED <<jobs, gui, files, status, process_enabled, cancel_enabled,
                 self_worker, dialogs, pureVars>>

\* the gates' state kept in the worker from one job to the next
ProcessVideoSetupShared(w) ==
  LET wk == workers[w]
      job == jobs[wk.i]
      dir == ensure_directory(job.dir_ok)
      fresh == [wk EXCEPT !.cap_pos = 0, !.frame_idx = 0, !.vi = 0]
  IN
  /\ wk.pc = "setup"
  /\ workers' = [workers EXCEPT ![w] =
       IF dir.raised THEN [wk EXCEPT !.pc = "raise"]
       ELSE IF ~job.openable THEN [wk EXCEPT !.pc = "raise"]
       ELSE IF \E a \in ProcessVideoReads : ~HasAttribute(job, a)
         THEN [wk EXCEPT !.pc = "raise", !.cap_open = TRUE]
       ELSE [fresh EXCEPT !.pc = "while", !.cap_open = TRUE,
                          !.sig = Append(wk.sig, Sig("progress_updated", 0))]]
  /\ UNCHANGED <<jobs, gui, files, uiVars, pureVars>>

\* process_video, lines 74-192: everything before the frame loop
ProcessVideoSetup(w) ==
  LET wk == workers[w]
      job == jobs[wk.i]
      dir == ensure_directory(job.dir_ok)
      fresh == [wk EXCEPT !.cap_pos = 0, !.frame_idx = 0, !.vi = 0,
                          !.blur_history = <<>>, !.consecutive_blur_skips = 0,
                          !.last_extracted_frame = -1]
  IN
  /\ wk.pc = "setup"
  /\ workers' = [workers EXCEPT ![w] =
       IF dir.raised THEN [wk EXCEPT !.pc = "raise"]
       ELSE IF ~job.openable THEN [wk EXCEPT !.pc = "raise"]
       ELSE IF \E a \in ProcessVideoReads : ~HasAttribute(job, a)
         THEN [wk EXCEPT !.pc = "raise", !.cap_open = TRUE]
       ELSE [fresh EXCEPT !.pc = "while", !.cap_open = TRUE,
                          !.sig = Append(wk.sig, Sig("progress_updated", 0))]]
  /\ UNCHANGED <<jobs, gui, files, uiVars, pureVars>>

\* the frame loop as "while True": is_running is not polled
WhileCheckUnpolled(w) ==
  LET wk == workers[w] IN
  /\ wk.pc = "while"
  /\ workers' = [workers EXCEPT ![w].pc = "read"]
  /\ UNCHANGED <<jobs, gui, files, uiVars, pureVars>>

\* process_video, line 194
WhileCheck(w) ==
  LET wk == workers[w] IN
  /\ wk.pc = "while"
  /\ workers' = [workers EXCEPT ![w] =
       IF wk.is_running THEN [wk EXCEPT !.pc = "read"]
       ELSE [wk EXCEPT !.pc = "return",
                       !.ends = Append(wk.ends, [job |-> wk.i, how |-> "stopped",
                                                 cap_pos |-> wk.cap_pos])]]
  /\ UNCHANGED <<jobs, gui, files, uiVars, pureVars>>

\* line 206: int((frame_idx / total_frames_video) * 100).  On the videos
\* modelled here the double arithmetic gives the integer quotient; for other
\* pairs (29 of 100) the product falls just below it and int() is one lower.
Progress(job, frame_idx) == (frame_idx * 100) \div TotalFramesVideo(job)

\* the scores MotionDetector.calculate_motion_score may return, in tenths:
\* none, the threshold itself, more
MotionScores(job) == {0, job.adaptive_threshold10, job.adaptive_threshold10 + 5}

\* the frame skipped only when the score is below the threshold
MotionSkipBelow(motion_score, adaptive_threshold) == motion_score < adaptive_threshold

\* line 229
MotionSkip(motion_score, adaptive_threshold) == motion_score <= adaptive_threshold

\* process_video, lines 195-234: cap.read(), the interval test, the progress
\* signal and the motion gate
ReadFrame(w) ==
  LET wk == workers[w]
      job == jobs[wk.i]
      read == [wk EXCEPT !.cap_pos = wk.cap_pos + 1, !.reads = wk.reads + 1]
      shown == [read EXCEPT !.sig = Append(wk.sig, Sig("progress_updated", Progress(job, wk.frame_idx)))]
      gated(score, skipped) ==
        [shown EXCEPT !.motion = Append(wk.motion, [job |-> wk.i, frame |-> wk.frame_idx,
                                                    score |-> score, skipped |-> skipped])]
      toViews(x) == IF Len(Views(job)) = 0
                      THEN [x EXCEPT !.frame_idx = wk.frame_idx + 1, !.pc = "while"]
                      ELSE [x EXCEPT !.vi = 1, !.pc = "view"]
  IN
  /\ wk.pc = "read"
  /\ IF wk.cap_pos >= job.nframes
       THEN workers' = [workers EXCEPT ![w].pc = "return",
                                       ![w].ends = Append(wk.ends, [job |-> wk.i, how |-> "exhausted",
                                                                    cap_pos |-> wk.cap_pos])]
     ELSE IF wk.frame_idx % Interval(job) # 0
       THEN workers' = [workers EXCEPT ![w] = [read EXCEPT !.frame_idx = wk.frame_idx + 1, !.pc = "while"]]
     ELSE IF job.adaptive_mode
       THEN IF wk.last_extracted_frame # -1
              THEN \E motion_score \in MotionScores(job) :
                     workers' = [workers EXCEPT ![w] =
                       IF MotionSkip(motion_score, job.adaptive_threshold10)
                         THEN [gated(motion_score, TRUE) EXCEPT !.frame_idx = wk.frame_idx + 1,
                                                                !.pc = "while"]
                         ELSE toViews([gated(motion_score, FALSE) EXCEPT
                                         !.last_extracted_frame = wk.frame_idx])]
              ELSE workers' = [workers EXCEPT ![w] =
                                 toViews([gated(-1, FALSE) EXCEPT
                                            !.last_extracted_frame = wk.frame_idx])]
     ELSE workers' = [workers EXCEPT ![w] = toViews(shown)]
  /\ UNCHANGED <<jobs, gui, files, uiVars, pureVars>>

\* the default blur_threshold (line 148): the sharpness scores
\* ImageUtils.calculate_blur_score may return are its multiples
ScoreUnit == 100

Scores == {ScoreUnit * x : x \in 0..MaxScore}

\* a video whose views are all in focus never scores below the threshold
SharpScores == {ScoreUnit, 2 * ScoreUnit}

ScoreChoices(job) ==
  IF ~job.blur_filter_enabled THEN {-1}
  ELSE IF job.in_focus THEN SharpScores ELSE Scores

AiActive(wk, job) == wk.ai_service /\ AiModeInternal(job) # "none"

DetectionChoices(wk, job) ==
  IF AiActive(wk, job) /\ wk.model_loaded THEN BOOLEAN ELSE {FALSE}

\* process_video, lines 236-359: one pass of the loop over views
ProcessView(w) ==
  LET wk == workers[w]
      job == jobs[wk.i]
      views == Views(job)
      name == views[wk.vi].name
      next(x) == IF wk.vi >= Len(views)
                   THEN [x EXCEPT !.vi = 0, !.frame_idx = wk.frame_idx + 1, !.pc = "while"]
                   ELSE [x EXCEPT !.vi = wk.vi + 1]
  IN
  /\ wk.pc = "view"
  /\ IF name \notin Maps(job)
       THEN /\ workers' = [workers EXCEPT ![w] = next(wk)]
            /\ files' = files
       ELSE \E score \in ScoreChoices(job), has_detection \in DetectionChoices(wk, job) :
              LET g == BlurGate(job, score, wk.blur_history, wk.consecutive_blur_skips)
                  ai == IF AiActive(wk, job)
                          THEN process_image(AiModeInternal(job), wk.model_loaded, has_detection)
                          ELSE [img |-> "image", extra |-> "None"]
                  ai_skip == AiActive(wk, job) /\ AiModeInternal(job) = "skip_frame"
                               /\ ai.extra = "True"
                  save == ~g.is_blurry /\ ~ai_skip /\ ai.img # "None"
                  save_name == SaveName(job, wk.frame_idx, name)
                  mask_name == MaskName(job, wk.frame_idx, name)
                  \* cv2.imwrite writes nothing into a directory that does not exist
                  image == IF save /\ job.dir_ok /\ save_name # <<>>
                             THEN {[dir |-> job.stem, name |-> save_name]} ELSE {}
                  mask == IF save /\ job.dir_ok /\ ai.extra = "mask"
                            THEN {[dir |-> job.stem, name |-> mask_name]} ELSE {}
                  entry == [job |-> wk.i, frame |-> wk.frame_idx, view |-> name,
                            score |-> score,
                            judged |-> g.judged, forced |-> g.forced,
                            accepted |-> ~g.is_blurry, ai |-> ai,
                            written |-> IF save THEN save_name ELSE <<>>,
                            skips |-> g.skips]
              IN /\ workers' = [workers EXCEPT ![w] =
                      next([wk EXCEPT !.blur_history = g.history,
                                      !.consecutive_blur_skips = g.skips,
                                      !.log = Append(wk.log, entry)])]
                 /\ files' = files \cup image \cup mask
  /\ UNCHANGED <<jobs, gui, uiVars, pureVars>>

\* process_video, line 361, and run(), line 55
RunJobFinished(w) ==
  LET wk == workers[w] IN
  /\ wk.pc = "return"
  /\ workers' = [workers EXCEPT ![w].pc = "for", ![w].i = wk.i + 1, ![w].cap_open = FALSE,
                                ![w].sig = Append(wk.sig, Sig("job_finished", wk.i))]
  /\ Emit(w, Sig("job_finished", wk.i))
  /\ UNCHANGED <<jobs, gui, files, status, process_enabled, cancel_enabled,
                 self_worker, dialogs, pureVars>>

\* run(), lines 56-59; the signal carries a message naming the job's file
RunError(w) ==
  LET wk == workers[w] IN
  /\ wk.pc = "raise"
  /\ workers' = [workers EXCEPT ![w].pc = "for", ![w].i = wk.i + 1,
                                ![w].sig = Append(wk.sig, Sig("error_occurred", wk.i))]
  /\ Emit(w, Sig("error_occurred", wk.i))
  /\ UNCHANGED <<jobs, gui, files, status, process_enabled, cancel_enabled,
                 self_worker, dialogs, pureVars>>

\* run(), line 61
RunFinished(w) ==
  LET wk == workers[w] IN
  /\ wk.pc = "finish"
  /\ workers' = [workers EXCEPT ![w].pc = "done",
                                ![w].sig = Append(wk.sig, Sig("finished", 0))]
  /\ Emit(w, Sig("finished", 0))
  /\ UNCHANGED <<jobs, gui, files, status, process_enabled, cancel_enabled,
                 self_worker, dialogs, pureVars>>

WorkerStep(w) ==
  \/ RunFor(w)
  \/ RunJobStarted(w)
  \/ ProcessVideoSetup(w)
  \/ WhileCheck(w)
  \/ ReadFrame(w)
  \/ ProcessView(w)
  \/ RunJobFinished(w)
  \/ RunError(w)
  \/ RunFinished(w)

\* ------------------------------------------------------------------------
\* ui/main_window.py: MainWindow
\* ------------------------------------------------------------------------
\* toggle_processing_state (lines 893-909)
ToggleProcessingState(is_processing) ==
  /\ process_enabled' = ~is_processing
  /\ cancel_enabled' = is_processing

\* start_processing (lines 854-885): a click on the enabled process button
StartProcessing ==
  /\ gui
  /\ process_enabled
  /\ dialogs = <<>>
  /\ Len(jobs) > 0
  /\ Len(workers) < MaxWorkers
  /\ ToggleProcessingState(TRUE)
  /\ status' = [x \in DOMAIN status |-> "Pending"]
  /\ \E loaded \in BOOLEAN :
       /\ (loaded \/ \E x \in 1..Len(jobs) : jobs[x].ai_mode # "None")
       /\ workers' = Append(workers, NewWorker(jobs, loaded))
  /\ self_worker' = Len(workers) + 1
  /\ UNCHANGED <<jobs, gui, files, sigq, dialogs, pureVars>>

\* cancel_processing (lines 887-891): a click on the enabled cancel button
CancelProcessing ==
  /\ gui
  /\ cancel_enabled
  /\ dialogs = <<>>
  /\ IF self_worker # 0
       THEN /\ workers' = [workers EXCEPT ![self_worker] = Stopped(workers[self_worker], "cancel_processing")]
            /\ cancel_enabled' = FALSE
       ELSE UNCHANGED <<workers, cancel_enabled>>
  /\ UNCHANGED <<jobs, gui, files, sigq, status, process_enabled, self_worker, dialogs, pureVars>>

\* on_job_started (lines 911-916)
OnJobStarted ==
  /\ sigq # <<>>
  /\ Head(sigq).name = "job_started"
  /\ sigq' = Tail(sigq)
  /\ status' = IF Head(sigq).arg \in DOMAIN status
                 THEN [status EXCEPT ![Head(sigq).arg] = "Processing"] ELSE status
  /\ UNCHANGED <<jobs, gui, workers, files, process_enabled, cancel_enabled,
                 self_worker, dialogs, pureVars>>

\* on_job_finished (lines 918-927)
OnJobFinished ==
  /\ sigq # <<>>
  /\ Head(sigq).name = "job_finished"
  /\ sigq' = Tail(sigq)
  /\ status' = IF Head(sigq).arg \in DOMAIN status
                 THEN [status EXCEPT ![Head(sigq).arg] = "Done"] ELSE status
  /\ UNCHANGED <<jobs, gui, workers, files, process_enabled, cancel_enabled,
                 self_worker, dialogs, pureVars>>

\* processing_finished (lines 934-939), up to the modal message box
ProcessingFinished ==
  /\ sigq # <<>>
  /\ Head(sigq).name = "finished"
  /\ sigq' = Tail(sigq)
  /\ ToggleProcessingState(FALSE)
  /\ dialogs' = Append(dialogs, "information")
  /\ UNCHANGED <<jobs, gui, workers, files, status, self_worker, pureVars>>

\* processing_error (lines 941-945), up to the modal message box; the message
\* is shown and nothing is done with the job it names
ProcessingError ==
  /\ sigq # <<>>
  /\ Head(sigq).name = "error_occurred"
  /\ sigq' = Tail(sigq)
  /\ ToggleProcessingState(FALSE)
  /\ dialogs' = Append(dialogs, "critical")
  /\ UNCHANGED <<jobs, gui, workers, files, status, self_worker, pureVars>>

\* the user closes the innermost message box and its handler goes on:
\* processing_error, lines 946-947
CloseMessageBox ==
  /\ dialogs # <<>>
  /\ dialogs' = SubSeq(dialogs, 1, Len(dialogs) - 1)
  /\ IF dialogs[Len(dialogs)] = "critical" /\ self_worker # 0
       THEN workers' = [workers EXCEPT ![self_worker] =
                          Stopped(workers[self_worker], "processing_error")]
       ELSE workers' = workers
  /\ UNCHANGED <<jobs, gui, files, sigq, status, process_enabled, cancel_enabled,
                 self_worker, pureVars>>

\* ------------------------------------------------------------------------
\* The calls of the pure functions
\* ------------------------------------------------------------------------
GvIdle == [n |-> 0, pitch_offset |-> 0, layout_mode |-> "none", views |-> <<>>, done |-> FALSE]

CammIdle == [raw |-> <<>>, duration |-> 0, offset |-> 0, samples |-> <<>>,
             running |-> FALSE, pc |-> "idle", result |-> <<>>]

\* a video without telemetry
NoTelemetry ==
  [gpx_exists |-> FALSE, gpx_readable |-> FALSE, gpx |-> [wellformed |-> FALSE, trkpts |-> <<>>],
   ffprobe_ok |-> FALSE, duration |-> 0, streams |-> <<>>,
   gpmf |-> [raises |-> TRUE, track |-> <<>>],
   camm |-> [raises |-> TRUE, raw |-> <<>>],
   srt |-> [raises |-> TRUE, track |-> <<>>]]

TelIdle == [env |-> NoTelemetry, pc |-> "idle", h |-> NewHandler, ret |-> FALSE,
            source |-> "none", query |-> RInt(0), answer |-> NoPosition]

\* handler = TelemetryHandler(); handler.extract_metadata(video_path)
ExtractMetadata ==
  /\ tel.pc = "new"
  /\ LET r == extract_metadata(tel.env)
     IN tel' = [tel EXCEPT !.pc = "extracted", !.h = r.h, !.ret = r.ret, !.source = r.source]
  /\ UNCHANGED <<jobs, gui, workers, files, uiVars, gv, camm>>

\* the times get_gps_at_time is asked for: whole seconds and a tenth
QueryTimes == {RInt(x) : x \in (0 - 1)..MaxTime} \cup {<<1, 10>>}

\* handler.get_gps_at_time(timestamp)
GetGpsAtTime ==
  /\ tel.pc \in {"extracted", "asked"}
  /\ \E timestamp \in QueryTimes :
       tel' = [tel EXCEPT !.pc = "asked", !.query = timestamp,
                          !.answer = get_gps_at_time(tel.h.has_gps, tel.h.gps_samples, timestamp)]
  /\ UNCHANGED <<jobs, gui, workers, files, uiVars, gv, camm>>

\* views = GeometryProcessor.generate_views(n, pitch_offset, layout_mode)
GenerateViews ==
  /\ ~gv.done
  /\ gv.layout_mode # "none"
  /\ gv' = [gv EXCEPT !.views = generate_views(gv.n, gv.pitch_offset, gv.layout_mode),
                      !.done = TRUE]
  /\ UNCHANGED <<jobs, gui, workers, files, uiVars, camm, tel>>

\* parse_camm_data: one iteration of the while loop of line 25
CammLoop ==
  /\ camm.pc = "loop"
  /\ LET st == CammIteration(camm.raw, [offset |-> camm.offset, samples |-> camm.samples,
                                        running |-> TRUE])
     IN camm' = [camm EXCEPT !.offset = st.offset, !.samples = st.samples,
                             !.running = st.running,
                             !.pc = IF st.running THEN "loop" ELSE "stamp"]
  /\ UNCHANGED <<jobs, gui, workers, files, uiVars, gv, tel>>

\* parse_camm_data, lines 107-121
CammReturn ==
  /\ camm.pc = "stamp"
  /\ camm' = [camm EXCEPT !.pc = "done",
                          !.result = [x \in 1..Len(camm.samples) |->
                             [timestamp |-> CammTimestamps(camm.samples, camm.duration)[x],
                              lat |-> camm.samples[x].lat,
                              lon |-> camm.samples[x].lon,
                              alt |-> camm.samples[x].alt]]]
  /\ UNCHANGED <<jobs, gui, workers, files, uiVars, gv, tel>>

\* ------------------------------------------------------------------------
\* The inputs
\* ------------------------------------------------------------------------
Stems == <<"a", "b", "c", "d">>

BaseJob(stem) ==
  [cls |-> "Full", stem |-> stem, openable |-> TRUE, dir_ok |-> TRUE,
   nframes |-> 1, frame_count |-> 1, fps100 |-> 3000, in_focus |-> FALSE,
   interval_unit |-> "Frames", interval10 |-> 10,
   camera_count |-> 2, pitch_offset |-> 0, layout_mode |-> "ring",
   active_cameras |-> NoSubset, output_format |-> "jpg",
   blur_filter_enabled |-> FALSE, smart_blur_enabled |-> FALSE, blur_threshold |-> 100,
   adaptive_mode |-> FALSE, adaptive_threshold10 |-> 5, ai_mode |-> "None", naming_mode |-> "realityscan",
   image_pattern |-> DefaultImagePattern, mask_pattern |-> DefaultMaskPattern]

Video(job, n) == [job EXCEPT !.nframes = n, !.frame_count = n]

\* the jobs of the window's queue: a good video, a video that does not open,
\* an output directory that cannot be created
GuiJobs(stem) ==
  {Video(BaseJob(stem), MaxFramesGui),
   [BaseJob(stem) EXCEPT !.openable = FALSE],
   [BaseJob(stem) EXCEPT !.dir_ok = FALSE]}

\* what run_cli's queue adds: an empty video, a core/job.py Job
OddJobs(stem) ==
  {Video(BaseJob(stem), 0), [BaseJob(stem) EXCEPT !.cls = "Job"]}

GuiQueues ==
  UNION {{q \in [1..len -> UNION {GuiJobs(Stems[x]) : x \in 1..len}] :
            \A x \in 1..len : q[x].stem = Stems[x]} : len \in 1..MaxJobs}

InitCommon ==
  /\ files = {}
  /\ sigq = <<>>
  /\ status = [x \in 1..Len(jobs) |-> "Pending"]
  /\ cancel_enabled = FALSE
  /\ self_worker = 0
  /\ dialogs = <<>>

\* MainWindow after files were added to the queue (add_job enables process_btn)
Init ==
  /\ jobs \in GuiQueues
  /\ gui = TRUE
  /\ workers = <<>>
  /\ process_enabled = TRUE
  /\ InitCommon
  /\ gv = GvIdle
  /\ camm = CammIdle
  /\ tel = TelIdle

Next ==
  \/ StartProcessing
  \/ CancelProcessing
  \/ OnJobStarted
  \/ OnJobFinished
  \/ ProcessingFinished
  \/ ProcessingError
  \/ CloseMessageBox
  \/ \E w \in 1..Len(workers) : WorkerStep(w)

Spec == Init /\ [][Next]_vars

\* ------------------------------------------------------------------------
\* run_cli (main.py, lines 199-243): one worker, run() called directly
\* ------------------------------------------------------------------------
CustomImagePattern == <<"{camera}", "-", "{frame}", "{ext}">>

Layouts ==
  {[camera_count |-> 2, layout_mode |-> "ring", active_cameras |-> NoSubset],
   [camera_count |-> 3, layout_mode |-> "adaptive", active_cameras |-> {0, 2}],
   [camera_count |-> 6, layout_mode |-> "cube", active_cameras |-> {0, 2, 4}]}

Namings ==
  {[naming_mode |-> "realityscan", image_pattern |-> DefaultImagePattern],
   [naming_mode |-> "simple", image_pattern |-> DefaultImagePattern],
   [naming_mode |-> "custom", image_pattern |-> DefaultImagePattern],
   [naming_mode |-> "custom", image_pattern |-> CustomImagePattern]}

\* jobs with every gate off: videos of 0..MaxFrames frames, intervals of
\* 0.5, 1, 2 and 3 frames, three layouts, the naming modes, three formats
PlainJobs ==
  {[Video(BaseJob("a"), n) EXCEPT
      !.interval10 = k, !.camera_count = l.camera_count, !.layout_mode = l.layout_mode,
      !.active_cameras = l.active_cameras, !.naming_mode = m.naming_mode,
      !.image_pattern = m.image_pattern, !.output_format = f] :
     n \in 0..MaxFrames, k \in {5, 10, 20, 30}, l \in Layouts, m \in Namings,
     f \in {"jpg", "PNG", "tiff"}}

\* 10 s at 30 fps, one extraction per second, six ring views
TenSecondClip ==
  [Video(BaseJob("a"), 300) EXCEPT !.interval_unit = "Seconds", !.interval10 = 10,
                                   !.fps100 = 3000, !.camera_count = 6]

BlurJobs ==
  {[Video(BaseJob("a"), MaxFrames) EXCEPT !.blur_filter_enabled = TRUE, !.smart_blur_enabled = smart] :
     smart \in BOOLEAN}

GatedJobs ==
  {[Video(BaseJob("a"), 2) EXCEPT !.ai_mode = "Skip Frame"],
   [Video(BaseJob("a"), 2) EXCEPT !.ai_mode = "Generate Mask", !.naming_mode = "simple"],
   [Video(BaseJob("a"), 2) EXCEPT !.ai_mode = "Generate Mask", !.blur_filter_enabled = TRUE],
   [Video(BaseJob("a"), 3) EXCEPT !.adaptive_mode = TRUE]}

\* --active-cameras 0,2 --camera-count 6 with the blur filter on, into a
\* directory that can or cannot be created
SubsetJobs ==
  {[Video(BaseJob("a"), 2) EXCEPT !.camera_count = 6, !.layout_mode = "adaptive",
                                  !.active_cameras = {0, 2}, !.blur_filter_enabled = TRUE,
                                  !.dir_ok = ok] : ok \in BOOLEAN}

\* one second of 29.97 fps video, one extraction per second
NtscClip ==
  [Video(BaseJob("a"), 30) EXCEPT !.interval_unit = "Seconds", !.interval10 = 10,
                                  !.fps100 = 2997]

\* a container whose CAP_PROP_FRAME_COUNT is 0 or 1 while cap.read() returns
\* three frames
MiscountedClips == {[Video(BaseJob("a"), 3) EXCEPT !.frame_count = c] : c \in {0, 1}}

\* --adaptive --smart-blur on a two-frame video
StatefulJob(stem) ==
  [Video(BaseJob(stem), 2) EXCEPT !.adaptive_mode = TRUE, !.blur_filter_enabled = TRUE,
                                  !.smart_blur_enabled = TRUE]

CliQueues ==
  {<<j>> : j \in PlainJobs \cup BlurJobs \cup GatedJobs \cup GuiJobs("a") \cup OddJobs("a")
                \cup {TenSecondClip, NtscClip, StatefulJob("a")} \cup SubsetJobs
                \cup MiscountedClips}
    \cup {<<StatefulJob("a"), StatefulJob("b")>>}
    \cup {q \in GuiQueues : Len(q) = 2}
    \cup {<<j, Video(BaseJob("b"), 1)>> : j \in OddJobs("a")}

InitCli ==
  /\ jobs \in CliQueues
  /\ gui = FALSE
  /\ \E loaded \in BOOLEAN :
       /\ (loaded \/ \E x \in 1..Len(jobs) : jobs[x].ai_mode # "None")
       /\ workers = <<NewWorker(jobs, loaded)>>
  /\ process_enabled = FALSE
  /\ InitCommon
  /\ gv = GvIdle
  /\ camm = CammIdle
  /\ tel = TelIdle

NextCli == \E w \in 1..Len(workers) : WorkerStep(w)

SpecCli == InitCli /\ [][NextCli]_vars

\* ------------------------------------------------------------------------
\* generate_views on its own
\* ------------------------------------------------------------------------
InitIdle ==
  /\ jobs = <<>>
  /\ gui = FALSE
  /\ workers = <<>>
  /\ process_enabled = FALSE
  /\ InitCommon

InitViews ==
  /\ InitIdle
  /\ gv \in {[GvIdle EXCEPT !.n = n, !.pitch_offset = p, !.layout_mode = m] :
               n \in MinCameras..MaxCameras, p \in PitchOffsets, m \in LayoutModes}
  /\ camm = CammIdle
  /\ tel = TelIdle

SpecViews == InitViews /\ [][GenerateViews]_vars

\* ------------------------------------------------------------------------
\* parse_camm_data on its own: a GPS record, three garbage bytes, a GPS record
\* ------------------------------------------------------------------------
ResyncStreams ==
  {GpsRecord(p1) \o <<g0, g1, g2>> \o GpsRecord(p2) :
     p1 \in FixPayloads, p2 \in FixPayloads, g0 \in GarbageBytes, g1 \in GarbageBytes,
     g2 \in GarbageBytes}

InitCamm ==
  /\ InitIdle
  /\ gv = GvIdle
  /\ tel = TelIdle
  /\ camm \in {[CammIdle EXCEPT !.raw = r, !.duration = d, !.running = TRUE, !.pc = "loop"] :
                 r \in ResyncStreams, d \in {0, 10}}

NextCamm == CammLoop \/ CammReturn

SpecCamm == InitCamm /\ [][NextCamm]_vars

\* ------------------------------------------------------------------------
\* run() on one long smart-blur job: two frames of six ring views, every
\* view in focus; the video opens or not
\* ------------------------------------------------------------------------
LongBlurJob ==
  [Video(BaseJob("a"), 2) EXCEPT !.camera_count = 6, !.blur_filter_enabled = TRUE,
                                 !.smart_blur_enabled = TRUE, !.in_focus = TRUE]

InitBlur ==
  /\ jobs \in {<<[LongBlurJob EXCEPT !.openable = ok]>> : ok \in BOOLEAN}
  /\ gui = FALSE
  /\ workers = <<NewWorker(jobs, TRUE)>>
  /\ process_enabled = FALSE
  /\ InitCommon
  /\ gv = GvIdle
  /\ camm = CammIdle
  /\ tel = TelIdle

SpecBlur == InitBlur /\ [][NextCli]_vars

\* ------------------------------------------------------------------------
\* run() on a queue of the window's jobs, with stop() called from another
\* thread at any moment
\* ------------------------------------------------------------------------
InitRun ==
  /\ jobs \in GuiQueues
  /\ gui = FALSE
  /\ workers = <<NewWorker(jobs, TRUE)>>
  /\ process_enabled = FALSE
  /\ InitCommon
  /\ gv = GvIdle
  /\ camm = CammIdle
  /\ tel = TelIdle

\* worker.stop() (lines 42-43)
Stop ==
  /\ \E w \in 1..Len(workers) :
       /\ workers[w].is_running
       /\ workers' = [workers EXCEPT ![w] = Stopped(workers[w], "stop")]
  /\ UNCHANGED <<jobs, gui, files, uiVars, pureVars>>

NextRun == NextCli \/ Stop

\* run() is sequential code in its own thread: it runs on until it returns
SpecRun == InitRun /\ [][NextRun]_vars /\ WF_vars(NextCli)

\* ------------------------------------------------------------------------
\* parse_camm_data on two GPS records whose fixes sit on and around the
\* bounds of line 69
\* ------------------------------------------------------------------------
\* struct.pack('<ddf', lat, lon, 1.0) (FixParis and FixNull apart) with the
\* numbers struct.unpack_from('<ddf') gives back, in 1e-5 degrees
EdgeFixes ==
  {[payload |-> FixParis, lat |-> 4885660, lon |-> 235220, nan |-> FALSE],
   [payload |-> FixNull, lat |-> 0, lon |-> 0, nan |-> FALSE],
   \* (0.0001, 0.00005)
   [payload |-> <<45, 67, 28, 235, 226, 54, 26, 63, 45, 67, 28, 235, 226, 54, 10, 63, 0, 0, 128, 63>>,
    lat |-> 10, lon |-> 5, nan |-> FALSE],
   \* (0.00005, 3.0)
   [payload |-> <<45, 67, 28, 235, 226, 54, 10, 63, 0, 0, 0, 0, 0, 0, 8, 64, 0, 0, 128, 63>>,
    lat |-> 5, lon |-> 300000, nan |-> FALSE],
   \* (-0.0002, 0.0)
   [payload |-> <<45, 67, 28, 235, 226, 54, 42, 191, 0, 0, 0, 0, 0, 0, 0, 0, 0, 0, 128, 63>>,
    lat |-> -20, lon |-> 0, nan |-> FALSE],
   \* (0.0, -0.00011)
   [payload |-> <<0, 0, 0, 0, 0, 0, 0, 0, 75, 176, 56, 156, 249, 213, 28, 191, 0, 0, 128, 63>>,
    lat |-> 0, lon |-> -11, nan |-> FALSE],
   \* (91.0, 2.0)
   [payload |-> <<0, 0, 0, 0, 0, 192, 86, 64, 0, 0, 0, 0, 0, 0, 0, 64, 0, 0, 128, 63>>,
    lat |-> 9100000, lon |-> 200000, nan |-> FALSE],
   \* (45.0, -180.0)
   [payload |-> <<0, 0, 0, 0, 0, 128, 70, 64, 0, 0, 0, 0, 0, 128, 102, 192, 0, 0, 128, 63>>,
    lat |-> 4500000, lon |-> -18000000, nan |-> FALSE],
   \* (45.0, 180.5)
   [payload |-> <<0, 0, 0, 0, 0, 128, 70, 64, 0, 0, 0, 0, 0, 144, 102, 64, 0, 0, 128, 63>>,
    lat |-> 4500000, lon |-> 18050000, nan |-> FALSE],
   \* (nan, 2.0)
   [payload |-> <<0, 0, 0, 0, 0, 0, 248, 127, 0, 0, 0, 0, 0, 0, 0, 64, 0, 0, 128, 63>>,
    lat |-> 0, lon |-> 200000, nan |-> TRUE]}

FixStreams ==
  {GpsRecord(f1.payload) \o GpsRecord(f2.payload) : f1 \in EdgeFixes, f2 \in EdgeFixes}

InitFix ==
  /\ InitIdle
  /\ gv = GvIdle
  /\ tel = TelIdle
  /\ camm \in {[CammIdle EXCEPT !.raw = r, !.duration = d, !.running = TRUE, !.pc = "loop"] :
                 r \in FixStreams, d \in {0, 10}}

SpecFix == InitFix /\ [][NextCamm]_vars

\* ------------------------------------------------------------------------
\* parse_camm_data on any bytes
\* ------------------------------------------------------------------------
Prefixes(raw) == {SubSeq(raw, 1, len) : len \in 0..Len(raw)}

\* a gyro record: type 2, three floats
GyroRecord == <<0, 0, 2, 0>> \o [x \in 1..12 |-> 0]

\* streams of records with an unknown tag or stray bytes among them
BrokenStreams ==
  {GpsRecord(FixParis) \o GyroRecord \o GpsRecord(FixSydney),
   GpsRecord(FixParis) \o <<0, 0, 9, 0, 255, 255>> \o GpsRecord(FixSydney),
   GpsRecord(FixParis) \o <<0, 0, 9, 0, 255, 255, 255, 255, 255, 255>>,
   <<255>> \o GpsRecord(FixGulf) \o GpsRecord(FixNull),
   <<255, 255, 255>> \o GpsRecord(FixGulf) \o <<0, 0, 1, 0>>}

ByteChoices == {0, 6, 255}

ShortStreams == UNION {[1..len -> ByteChoices] : len \in 0..MaxBytes}

AnyStreams == ShortStreams \cup UNION {Prefixes(r) : r \in BrokenStreams}

InitTotal ==
  /\ InitIdle
  /\ gv = GvIdle
  /\ tel = TelIdle
  /\ camm \in {[CammIdle EXCEPT !.raw = r, !.duration = d, !.running = TRUE, !.pc = "loop"] :
                 r \in AnyStreams, d \in {0, 10}}

\* the loop is sequential code: it runs on until it returns
SpecTotal == InitTotal /\ [][NextCamm]_vars /\ WF_vars(NextCamm)

\* ------------------------------------------------------------------------
\* A TelemetryHandler on its own: extract_metadata on a video, then
\* get_gps_at_time
\* ------------------------------------------------------------------------
\* <trkpt lat lon><ele/><time/></trkpt> at epoch second t with coordinates v
GpxPoint(t, v) ==
  [num_ok |-> TRUE, lat |-> v, lon |-> 2 * v, ele |-> 3 * v, has_ele |-> TRUE,
   time |-> "ok", t |-> t]

GpxPointChoices ==
  {GpxPoint(t, v) : t \in {100, 104, 110}, v \in {10, 30}}
    \cup {[GpxPoint(104, 50) EXCEPT !.has_ele = FALSE],
          [GpxPoint(104, 50) EXCEPT !.num_ok = FALSE],
          [GpxPoint(104, 50) EXCEPT !.time = "none"],
          [GpxPoint(104, 50) EXCEPT !.time = "bad"]}

GpxContents ==
  {[wellformed |-> FALSE, trkpts |-> <<>>]}
    \cup UNION {{[wellformed |-> TRUE, trkpts |-> q] : q \in [1..len -> GpxPointChoices]} :
                 len \in 0..MaxPoints}

\* what GPMFParser.parse and parse_srt_data return: ordered GPS samples
DecodedTracks ==
  {<<>>,
   <<[timestamp |-> RInt(0), lat |-> 10, lon |-> 20, alt |-> 30],
     [timestamp |-> RInt(4), lat |-> 30, lon |-> 60, alt |-> 90]>>}

DecoderRuns == {[raises |-> TRUE, track |-> <<>>]} \cup {[raises |-> FALSE, track |-> q] : q \in DecodedTracks}

\* the bytes of a CAMM stream: nothing, two or three fixes, a gyro record
\* only, a null fix only
CammRaws ==
  {<<>>,
   GpsRecord(FixParis) \o GpsRecord(FixSydney),
   GpsRecord(FixParis) \o GpsRecord(FixSydney) \o GpsRecord(FixGulf),
   <<0, 0, 2, 0>> \o [x \in 1..12 |-> 0],
   GpsRecord(FixNull)}

CammRuns == {[raises |-> TRUE, raw |-> <<>>]} \cup {[raises |-> FALSE, raw |-> r] : r \in CammRaws}

StreamKinds == {"gpmd", "camm", "subtitle", "other"}

StreamLists == UNION {[1..len -> StreamKinds] : len \in 0..MaxStreams}

\* videos with a GPX sidecar
SidecarVideos ==
  {[NoTelemetry EXCEPT !.gpx_exists = TRUE, !.gpx_readable = r, !.gpx = g,
                       !.ffprobe_ok = TRUE, !.duration = 10, !.streams = s,
                       !.camm = [raises |-> FALSE, raw |-> GpsRecord(FixParis) \o GpsRecord(FixSydney)]] :
     r \in BOOLEAN, g \in GpxContents, s \in {<<>>, <<"camm">>}}

\* videos without a sidecar
StreamVideos ==
  {[NoTelemetry EXCEPT !.ffprobe_ok = ok, !.duration = d, !.streams = s,
                       !.gpmf = g, !.camm = c, !.srt = t] :
     ok \in BOOLEAN, d \in {0, 10}, s \in StreamLists, g \in DecoderRuns, c \in CammRuns,
     t \in DecoderRuns}

InitTel ==
  /\ InitIdle
  /\ gv = GvIdle
  /\ camm = CammIdle
  /\ tel \in {[TelIdle EXCEPT !.env = e, !.pc = "new"] : e \in SidecarVideos \cup StreamVideos}

NextTel == ExtractMetadata \/ GetGpsAtTime

SpecTel == InitTel /\ [][NextTel]_vars

\* ------------------------------------------------------------------------
\* Properties
\* ------------------------------------------------------------------------
\* the fixes of a decoded track, without their timestamps
FixesOf(result) == [x \in 1..Len(result) |->
                      [lat |-> result[x].lat, lon |-> result[x].lon, alt |-> result[x].alt]]

\* the two well-formed records of a resync stream
StreamFixes(raw) == <<FixOf(Slice(raw, 4, 20)), FixOf(Slice(raw, 31, 20))>>

\* the third garbage byte of a resync stream (offset 26)
ThirdGarbage(raw) == raw[27]

\* C2 as claimed: whatever the three garbage bytes are, the stream "GPS record,
\* 3 garbage bytes, GPS record" decodes to exactly the two fixes, in order.
C2_ResyncAnyGarbage ==
  camm.pc = "done" => FixesOf(camm.result) = StreamFixes(camm.raw)

\* C2, amended: when the third garbage byte is not the low byte of a tag the
\* decoder knows (0, 1, 2, 3, 6), the stream "GPS record, 3 garbage bytes, GPS
\* record" decodes to exactly the two fixes, in stream order.
C2_ResyncUnknownTag ==
  (camm.pc = "done" /\ ThirdGarbage(camm.raw) \notin {0, 1, 2, 3, 6})
    => FixesOf(camm.result) = StreamFixes(camm.raw)

\* C2: a stream with garbage 255, 0, 7 was decoded to two distinct fixes
C2_Witness ==
  /\ camm.pc = "done"
  /\ ThirdGarbage(camm.raw) = 7
  /\ camm.raw[25] = 255
  /\ Len(camm.result) = 2
  /\ camm.result[1].lat # camm.result[2].lat
  /\ FixesOf(camm.result) = StreamFixes(camm.raw)

\* C3 as claimed: for every camera count n, generate_views(n, layout_mode =
\* "cube") returns the six views Front, Right, Back, Left, Up, Down in that
\* order, Up at pitch +90 and Down at pitch -90 whatever pitch_offset is.
C3_CubeAlwaysSix ==
  (gv.done /\ gv.layout_mode = "cube") =>
    /\ [x \in 1..Len(gv.views) |-> gv.views[x].name]
         = <<"Front", "Right", "Back", "Left", "Up", "Down">>
    /\ gv.views[5].pitch = Deg(90, 1, 0)
    /\ gv.views[6].pitch = Deg(-90, 1, 0)

\* the job of a log entry runs the smart blur gate
SmartEntry(e) == jobs[e.job].blur_filter_enabled /\ jobs[e.job].smart_blur_enabled

\* the place of attempt p among the consecutive rejection candidates of its
\* job: 1 after an accepted attempt or at the job's first attempt, 0 when the
\* attempt was not judged blurry by the floor/adaptive test
RECURSIVE RunLen(_, _)
RunLen(log, p) ==
  IF ~log[p].judged THEN 0
  ELSE IF p > 1 /\ log[p - 1].job = log[p].job /\ log[p - 1].judged /\ ~log[p - 1].accepted
    THEN 1 + RunLen(log, p - 1)
  ELSE 1

\* the state of the gate right after the last logged attempt of worker wk
AfterLastAttempt(wk) ==
  /\ wk.log # <<>>
  /\ wk.pc \in {"view", "while", "read", "return"}
  /\ wk.i = wk.log[Len(wk.log)].job

Emitted(wk, name, i) == \E k \in 1..Len(wk.sig) : wk.sig[k] = Sig(name, i)

\* how often worker wk emitted the signal name for job i
TimesEmitted(wk, name, i) == Cardinality({k \in 1..Len(wk.sig) : wk.sig[k] = Sig(name, i)})

\* the signal name of worker w for job i still waits in the window's queue
Waiting(w, name, i) == \E k \in 1..Len(sigq) : sigq[k] = [w |-> w] @@ Sig(name, i)

\* the files in the output directory of a job
FilesOf(job) == {x \in files : x.dir = job.stem}

\* C4 as claimed: a job whose output directory cannot be created is aborted
\* before its video is opened or any image is written, and run() reports it
\* through error_occurred instead of job_finished.
C4_DirFailureAborts ==
  \A w \in 1..Len(workers) : \A i \in 1..Len(jobs) :
    LET wk == workers[w] IN
    ~jobs[i].dir_ok =>
      /\ ~Emitted(wk, "job_finished", i)
      /\ (wk.i = i => (~wk.cap_open /\ wk.pc \notin {"while", "read", "view", "return"}))
      /\ (wk.i > i => Emitted(wk, "error_occurred", i))
      /\ FilesOf(jobs[i]) = {}

\* C5 as claimed: when job i fails because its video cannot be opened, the
\* error is reported exactly once for job i and, unless the user cancelled,
\* every later job of the queue is started and processed to the end of its
\* video by the time run() returns.
C5_SiblingsRun ==
  \A w \in 1..Len(workers) : \A i \in 1..Len(jobs) :
    LET wk == workers[w] IN
    (~jobs[i].openable /\ wk.i > i) =>
      /\ TimesEmitted(wk, "error_occurred", i) = 1
      /\ (wk.pc = "done" /\ wk.stop_seen.by # "cancel_processing") =>
           \A j \in (i + 1)..Len(jobs) :
             /\ Emitted(wk, "job_started", j)
             /\ Emitted(wk, "job_finished", j) \/ Emitted(wk, "error_occurred", j)
             /\ \A k \in 1..Len(wk.ends) : wk.ends[k].job = j => wk.ends[k].how = "exhausted"

\* C6 as claimed: a job whose frame loop is ended by stop() before its video
\* is exhausted is not reported as completed: job_finished is not emitted for
\* it and its status does not become Done.
C6_StoppedIsCancelled ==
  \A w \in 1..Len(workers) : \A k \in 1..Len(workers[w].ends) :
    LET wk == workers[w]
        e == wk.ends[k]
    IN (e.how = "stopped" /\ e.cap_pos < jobs[e.job].nframes) =>
         /\ ~Emitted(wk, "job_finished", e.job)
         /\ (Len(workers) = 1 => status[e.job] # "Done")

\* the worker is inside process_video for a job
InJob(wk) == wk.pc \in {"setup", "while", "read", "view", "return", "raise"}

\* no gate can drop a view of the job
GatesOff(job) == ~job.blur_filter_enabled /\ ~job.adaptive_mode /\ job.ai_mode = "None"

\* stop() found worker wk inside an iteration of the frame loop of job
\* wk.stop_seen.i: the while test of line 194 had passed
InFlight(wk) == wk.stop_seen.pc \in {"read", "view"}

\* the worker has left the iteration stop() found it in
LeftFlight(wk) ==
  ~(/\ wk.i = wk.stop_seen.i
    /\ wk.frame_idx = wk.stop_seen.frame_idx
    /\ wk.pc \in {"read", "view"})

\* the views of the frame in flight that were still to be processed when
\* stop() was called: indexes into Views(job)
ViewsToDo(wk) ==
  LET ss == wk.stop_seen
      job == jobs[ss.i]
  IN IF ss.pc = "view" THEN {x \in ss.vi..Len(Views(job)) : Views(job)[x].name \in Maps(job)}
     ELSE IF /\ ss.cap_pos < job.nframes
             /\ ss.frame_idx % Interval(job) = 0
             /\ ~job.adaptive_mode
       THEN {x \in 1..Len(Views(job)) : Views(job)[x].name \in Maps(job)}
     ELSE {}

\* C7: stop() is polled. Wherever the worker stands when stop() is called,
\* (a) it reads no frame beyond the one of the loop iteration in progress,
\* (b) it starts no job other than the one whose start test had already passed,
\* (c) every active view of the frame in flight is still run through the
\*     gates and, gates off, handed to save_image and written,
\* (d) no file handed to save_image into an existing directory is missing.
C7_StopPolled ==
  \A w \in 1..Len(workers) :
    LET wk == workers[w]
        ss == wk.stop_seen
    IN
    /\ ss.pc # "none" =>
         /\ wk.reads <= ss.reads + (IF ss.pc = "read" THEN 1 ELSE 0)
         /\ \A k \in (ss.nsig + 1)..Len(wk.sig) :
              wk.sig[k].name = "job_started" => (ss.pc = "started" /\ wk.sig[k].arg = ss.i)
         /\ (InFlight(wk) /\ LeftFlight(wk)) =>
              \A x \in ViewsToDo(wk) :
                \E p \in 1..Len(wk.log) :
                  /\ wk.log[p].job = ss.i
                  /\ wk.log[p].frame = ss.frame_idx
                  /\ wk.log[p].view = Views(jobs[ss.i])[x].name
                  /\ GatesOff(jobs[ss.i]) =>
                       wk.log[p].written = SaveName(jobs[ss.i], ss.frame_idx, wk.log[p].view)
    /\ \A p \in 1..Len(wk.log) :
         (wk.log[p].written # <<>> /\ jobs[wk.log[p].job].dir_ok) =>
           [dir |-> jobs[wk.log[p].job].stem, name |-> wk.log[p].written] \in files

\* C7: cancel_processing called stop() while the first view of frame 0 of a
\* two-frame video was being processed; both views of that frame were
\* written, frame 1 was never read, the second job was never started and
\* run() returned
C7_Witness ==
  \E w \in 1..Len(workers) :
    LET wk == workers[w]
        ss == wk.stop_seen
    IN /\ ss.pc = "view" /\ ss.vi = 1 /\ ss.frame_idx = 0 /\ ss.i = 1
       /\ ss.by = "cancel_processing"
       /\ Len(jobs) = 2
       /\ jobs[1].nframes = 2
       /\ jobs[1].dir_ok
       /\ wk.pc = "done"
       /\ wk.reads = 1
       /\ Len(wk.log) = 2
       /\ Cardinality(FilesOf(jobs[1])) >= 2
       /\ ~Emitted(wk, "job_started", 2)

\* C8 as claimed: at every moment at most one worker is processing a job.
C8_OneJobAtATime ==
  Cardinality({w \in 1..Len(workers) : InJob(workers[w])}) <= 1

\* C9 as claimed: once the window has handled the error report of a failed
\* job, that job's status is Error (not Processing, never Done).
C9_FailedIsError ==
  Len(workers) = 1 =>
    \A i \in 1..Len(jobs) :
      (Emitted(workers[1], "error_occurred", i) /\ ~Waiting(1, "error_occurred", i))
        => status[i] = "Error"

\* the frames 0, k, 2k, ... below n
Considered(n, k) == {f \in 0..(n - 1) : f % k = 0}

\* {stem}_frame{frame:06d}_{view}{ext}
DefaultName(job, f, view) == <<job.stem, "_frame">> \o Frame06d(f) \o <<"_", view, Ext(job)>>

\* C10 as claimed: with motion gate, blur gate and AI disabled, a video of N
\* frames processed to completion with interval k leaves exactly one image
\* {stem}_frame{frame:06d}_{view}{ext} per considered frame 0, k, 2k, ... and
\* active view: ceil(N/k) * views images.
C10_ExactImages ==
  \A w \in 1..Len(workers) : \A i \in 1..Len(jobs) :
    LET wk == workers[w]
        job == jobs[i]
        k == Interval(job)
        expected == {[dir |-> job.stem, name |-> DefaultName(job, f, v)] :
                       f \in Considered(job.nframes, k), v \in Maps(job)}
    IN (GatesOff(job) /\ Emitted(wk, "job_finished", i)) =>
         /\ FilesOf(job) = expected
         /\ Cardinality(FilesOf(job))
              = ((job.nframes + k - 1) \div k) * Cardinality(Maps(job))

\* ------------------------------------------------------------------------
\* Telemetry
\* ------------------------------------------------------------------------
\* gps_samples is ordered non-decreasing by timestamp
Sorted(samples) ==
  \A x \in 1..(Len(samples) - 1) : ~RLess(samples[x + 1].timestamp, samples[x].timestamp)

\* a lies on the line through (t1, p1) and (t2, p2) at time q
OnLine(a, p1, p2, t1, t2, q) ==
  REq(RMul(a, RSub(t2, t1)),
      RAdd(RMul(RInt(p1), RSub(t2, q)), RMul(RInt(p2), RSub(q, t1))))

\* q is midway between t1 and t2
Midway(t1, t2, q) == RLess(t1, t2) /\ REq(RMul(RInt(2), q), RAdd(t1, t2))

\* a is the arithmetic mean of p1 and p2
MeanOf(a, p1, p2) == REq(RMul(RInt(2), a), RInt(p1 + p2))

Asked == tel.pc = "asked" /\ tel.h.has_gps /\ tel.h.gps_samples # <<>>

\* C11: on a non-empty track sorted by timestamp, get_gps_at_time(t) is the
\* first sample for t up to the first timestamp, the last sample for t after
\* the last timestamp, and otherwise the linear interpolation of lat, lon and
\* alt between the two samples that bracket t (their mean when t is midway
\* between two adjacent distinct timestamps).
C11_ClampedLinear ==
  (Asked /\ Sorted(tel.h.gps_samples)) =>
    LET S == tel.h.gps_samples
        n == Len(S)
        q == tel.query
        a == tel.answer
    IN /\ ~a.none
       /\ ~RLess(S[1].timestamp, q) => a = Position(S[1])
       /\ RLess(S[n].timestamp, q) => a = Position(S[n])
       /\ \A x \in 1..(n - 1) :
            /\ (RLess(S[x].timestamp, q) /\ ~RLess(S[x + 1].timestamp, q)) =>
                 /\ OnLine(a.lat, S[x].lat, S[x + 1].lat, S[x].timestamp, S[x + 1].timestamp, q)
                 /\ OnLine(a.lon, S[x].lon, S[x + 1].lon, S[x].timestamp, S[x + 1].timestamp, q)
                 /\ OnLine(a.alt, S[x].alt, S[x + 1].alt, S[x].timestamp, S[x + 1].timestamp, q)
            /\ Midway(S[x].timestamp, S[x + 1].timestamp, q) =>
                 /\ MeanOf(a.lat, S[x].lat, S[x + 1].lat)
                 /\ MeanOf(a.lon, S[x].lon, S[x + 1].lon)
                 /\ MeanOf(a.alt, S[x].alt, S[x + 1].alt)

\* a query midway between two samples at different places, inside a track
\* of three samples, answered with neither of them
C11_Witness ==
  /\ Asked
  /\ Sorted(tel.h.gps_samples)
  /\ Len(tel.h.gps_samples) = 3
  /\ \E x \in 1..2 :
       /\ Midway(tel.h.gps_samples[x].timestamp, tel.h.gps_samples[x + 1].timestamp, tel.query)
       /\ tel.h.gps_samples[x].lat # tel.h.gps_samples[x + 1].lat
       /\ tel.answer # Position(tel.h.gps_samples[x])
       /\ tel.answer # Position(tel.h.gps_samples[x + 1])
       /\ ~tel.answer.none

Extracted == tel.pc \in {"extracted", "asked"}

\* the sidecar file is there and holds at least one timed point
SidecarPresent ==
  tel.env.gpx_exists /\ tel.env.gpx_readable /\ parse_gpx_data(tel.env.gpx) # <<>>

\* ffprobe lists a stream of that kind
StreamPresent(kind) ==
  tel.env.ffprobe_ok /\ \E x \in 1..Len(tel.env.streams) : tel.env.streams[x] = kind

\* C12: extract_metadata takes the track from the highest-priority source
\* present: the GPX sidecar, then the GPMF stream, then the CAMM stream
\* whatever the order of the streams, then the subtitles.
C12_SourcePriority ==
  Extracted =>
    tel.source = (IF SidecarPresent THEN "gpx"
                  ELSE IF StreamPresent("gpmd") THEN "gpmf"
                  ELSE IF StreamPresent("camm") THEN "camm"
                  ELSE IF StreamPresent("subtitle") THEN "srt"
                  ELSE "none")

\* C13: after extract_metadata, whichever decoder supplied the track,
\* gps_samples is ordered non-decreasing by timestamp.
C13_TrackSorted == Extracted => Sorted(tel.h.gps_samples)

\* C14: when extract_metadata returns True (has_gps is True) gps_samples
\* is not empty and get_gps_at_time answers every time with a position;
\* with no sample decoded extract_metadata returns False.
C14_TrueMeansSamples ==
  Extracted =>
    /\ (tel.ret \/ tel.h.has_gps) => tel.h.gps_samples # <<>>
    /\ (tel.pc = "asked" /\ tel.ret) => ~tel.answer.none

\* C15: parse_camm_data is total on byte strings: every iteration that
\* stays in the loop moves the read offset forward and keeps the samples
\* decoded so far, the loop ends, and the samples decoded up to there are
\* what is returned.
C15_Total ==
  /\ [][/\ (camm.pc = "loop" /\ camm'.pc = "loop") => camm'.offset > camm.offset
        /\ camm.pc = "loop" =>
             /\ Len(camm'.samples) >= Len(camm.samples)
             /\ SubSeq(camm'.samples, 1, Len(camm.samples)) = camm.samples
        /\ camm'.pc = "done" =>
             /\ Len(camm'.result) = Len(camm.samples)
             /\ \A x \in 1..Len(camm.samples) :
                  /\ camm'.result[x].lat = camm.samples[x].lat
                  /\ camm'.result[x].lon = camm.samples[x].lon
                  /\ camm'.result[x].alt = camm.samples[x].alt]_vars
  /\ <>(camm.pc = "done")

\* a fix was decoded, then an unknown tag with no plausible header after it
\* ended the loop, and the fix was returned
C15_Witness ==
  /\ camm.pc = "done"
  /\ Len(camm.result) = 1
  /\ camm.offset >= 28
  /\ camm.offset < Len(camm.raw)
  /\ PayloadSize(U16(camm.raw, camm.offset - 2)) = -1
  /\ ScanHeader(camm.raw, camm.offset - 3) = -1

\* ------------------------------------------------------------------------
\* Active cameras
\* ------------------------------------------------------------------------
\* the names of the views whose index is in active_cameras
ActiveNames(job) ==
  {Views(job)[x].name : x \in {y \in 1..Len(Views(job)) : (y - 1) \in job.active_cameras}}

\* C16 as claimed: with active_cameras set, an image is written for view
\* index i if and only if i is in active_cameras and the view passes the
\* gates; no map is built and no file is written for an index outside the
\* subset.
C16_ActiveSubset ==
  \A w \in 1..Len(workers) : \A i \in 1..Len(jobs) :
    LET wk == workers[w]
        job == jobs[i]
    IN job.active_cameras # NoSubset =>
         /\ \A p \in 1..Len(wk.log) :
              wk.log[p].job = i =>
                /\ wk.log[p].view \in ActiveNames(job)
                /\ wk.log[p].written # <<>> =>
                     [dir |-> job.stem, name |-> wk.log[p].written] \in files
         /\ \A x \in FilesOf(job) :
              \E f \in 0..job.nframes, v \in ActiveNames(job) :
                x.name \in {SaveName(job, f, v), MaskName(job, f, v)}
         /\ (wk.i > i /\ Emitted(wk, "job_finished", i)) =>
              \A f \in Considered(job.nframes, Interval(job)), v \in ActiveNames(job) :
                \E p \in 1..Len(wk.log) :
                  /\ wk.log[p].job = i /\ wk.log[p].frame = f /\ wk.log[p].view = v
                  /\ wk.log[p].accepted => wk.log[p].written = SaveName(job, f, v)

\* ------------------------------------------------------------------------
\* Layouts
\* ------------------------------------------------------------------------
\* C17: for every n in 2..36, n = 6 included, generate_views(n, pitch_offset,
\* 'ring') returns exactly n views View_0..View_{n-1} with yaw i*360/n, pitch
\* pitch_offset and roll 0; the ring is never replaced by the cube.
C17_RingExact ==
  (gv.done /\ gv.layout_mode = "ring") =>
    /\ Len(gv.views) = gv.n
    /\ \A x \in 1..Len(gv.views) :
         /\ gv.views[x].name = ViewName(x - 1)
         /\ gv.views[x].yaw = Deg((x - 1) * 360, gv.n, 0)
         /\ gv.views[x].pitch = Deg(0, 1, gv.pitch_offset)
         /\ gv.views[x].roll = 0

\* six ring views tilted down by 20 degrees, the second at 60 degrees
C17_Witness ==
  /\ gv.done
  /\ gv.layout_mode = "ring"
  /\ gv.n = 6
  /\ gv.pitch_offset = -20
  /\ Len(gv.views) = 6
  /\ gv.views[2] = [name |-> "View_1", yaw |-> Deg(360, 6, 0), pitch |-> Deg(0, 1, -20),
                    roll |-> 0]

\* C18 as claimed: for every n in 2..36, generate_views(n, layout_mode =
\* 'fibonacci') returns exactly n views on the golden-section spiral, with
\* pitch_offset added to the pitch of every view.
C18_FibonacciAlways ==
  (gv.done /\ gv.layout_mode = "fibonacci") =>
    /\ Len(gv.views) = gv.n
    /\ \A x \in 1..Len(gv.views) :
         /\ gv.views[x].name = ViewName(x - 1)
         /\ gv.views[x].yaw = [t |-> "fibyaw", a |-> x - 1, b |-> gv.n, off |-> 0]
         /\ gv.views[x].pitch = [t |-> "fibpitch", a |-> x - 1, b |-> gv.n,
                                 off |-> gv.pitch_offset]

\* C19: layout_mode 'adaptive' gives the ring for n < 6, the cube for n = 6
\* and the fibonacci sphere for n > 6.
C19_AdaptiveDispatch ==
  (gv.done /\ gv.layout_mode = "adaptive") =>
    /\ gv.n < 6 =>
         /\ Len(gv.views) = gv.n
         /\ \A x \in 1..Len(gv.views) :
              gv.views[x] = MkView(ViewName(x - 1), Deg((x - 1) * 360, gv.n, 0),
                                   Deg(0, 1, gv.pitch_offset))
    /\ gv.n = 6 =>
         /\ [x \in 1..Len(gv.views) |-> gv.views[x].name]
              = <<"Front", "Right", "Back", "Left", "Up", "Down">>
         /\ [x \in 1..Len(gv.views) |-> gv.views[x].yaw]
              = <<Deg(0, 1, 0), Deg(90, 1, 0), Deg(180, 1, 0), Deg(270, 1, 0), Deg(0, 1, 0),
                  Deg(0, 1, 0)>>
         /\ \A x \in 1..4 : gv.views[x].pitch = Deg(0, 1, gv.pitch_offset)
         /\ gv.views[5].pitch = Deg(90, 1, 0)
         /\ gv.views[6].pitch = Deg(-90, 1, 0)
    /\ gv.n > 6 =>
         /\ Len(gv.views) = gv.n
         /\ \A x \in 1..Len(gv.views) :
              gv.views[x] = MkView(ViewName(x - 1),
                                   [t |-> "fibyaw", a |-> x - 1, b |-> gv.n, off |-> 0],
                                   [t |-> "fibpitch", a |-> x - 1, b |-> gv.n,
                                    off |-> gv.pitch_offset])

\* adaptive with six cameras gave the cube, its poles untouched by the tilt
C19_Witness ==
  /\ gv.done
  /\ gv.layout_mode = "adaptive"
  /\ gv.n = 6
  /\ gv.pitch_offset = 20
  /\ gv.views[1] = MkView("Front", Deg(0, 1, 0), Deg(0, 1, 20))
  /\ gv.views[5] = MkView("Up", Deg(0, 1, 0), Deg(90, 1, 0))

\* ------------------------------------------------------------------------
\* The Job class
\* ------------------------------------------------------------------------
\* C20 as claimed: a Job exposes resolution, adaptive_mode, adaptive_threshold
\* and export_telemetry, so process_video reads its parameters from any Job
\* of a video that opens without raising.
C20_JobAccessors ==
  \A w \in 1..Len(workers) : \A i \in 1..Len(jobs) :
    LET wk == workers[w] IN
    (jobs[i].cls = "Job" /\ jobs[i].openable /\ Emitted(wk, "job_started", i)) =>
      /\ \A a \in ProcessVideoReads : HasAttribute(jobs[i], a)
      /\ wk.i = i => wk.pc # "raise"
      /\ ~Emitted(wk, "error_occurred", i)

\* ------------------------------------------------------------------------
\* The gates' state
\* ------------------------------------------------------------------------
\* the worker stands at the first test of the frame loop of a job
AtJobStart(wk) == wk.pc = "while" /\ wk.cap_pos = 0 /\ wk.frame_idx = 0

\* C21: at the start of every job of a queue the blur history is empty, the
\* consecutive-skip counter is 0 and there is no motion reference frame,
\* whatever earlier jobs of the same worker left behind.
C21_StatePerJob ==
  \A w \in 1..Len(workers) :
    AtJobStart(workers[w]) =>
      /\ workers[w].blur_history = <<>>
      /\ workers[w].consecutive_blur_skips = 0
      /\ workers[w].last_extracted_frame = -1

\* the second job starts after a first job that accepted a view, rejected
\* the last one and kept a reference frame
C21_Witness ==
  \E w \in 1..Len(workers) :
    LET wk == workers[w] IN
    /\ AtJobStart(wk)
    /\ wk.i = 2
    /\ Len(wk.motion) >= 1
    /\ Len(wk.log) >= 2
    /\ wk.log[1].accepted
    /\ ~wk.log[Len(wk.log)].accepted

\* C22: with the motion gate on, a considered frame whose score against the
\* reference is <= the threshold yields no view attempt and leaves the blur
\* history, the skip counter and the reference frame as they were; a frame
\* scoring more, and the first considered frame, becomes the reference
\* before its views are processed.
C22_MotionGate ==
  [][\A w \in 1..Len(workers) :
       LET wk == workers[w]
           wk1 == workers'[w]
           job == jobs[wk.i]
           e == wk1.motion[Len(wk1.motion)]
       IN /\ Len(wk1.motion) = Len(wk.motion) + 1 =>
               /\ e.job = wk.i /\ e.frame = wk.frame_idx
               /\ wk1.log = wk.log
               /\ files' = files
               /\ (e.score = -1) = (\A p \in 1..Len(wk.motion) : wk.motion[p].job # wk.i)
               /\ (e.score # -1 /\ e.score <= job.adaptive_threshold10) =>
                    /\ e.skipped
                    /\ wk1.blur_history = wk.blur_history
                    /\ wk1.consecutive_blur_skips = wk.consecutive_blur_skips
                    /\ wk1.last_extracted_frame = wk.last_extracted_frame
                    /\ wk1.pc = "while" /\ wk1.frame_idx = wk.frame_idx + 1
               /\ (e.score = -1 \/ e.score > job.adaptive_threshold10) =>
                    /\ ~e.skipped
                    /\ wk1.last_extracted_frame = wk.frame_idx
                    /\ wk1.pc = "view" /\ wk1.frame_idx = wk.frame_idx
          /\ \A p \in (Len(wk.log) + 1)..Len(wk1.log) :
               /\ job.adaptive_mode =>
                    \E m \in 1..Len(wk1.motion) :
                      /\ wk1.motion[m].job = wk1.log[p].job
                      /\ wk1.motion[m].frame = wk1.log[p].frame
                      /\ ~wk1.motion[m].skipped
                      /\ wk.last_extracted_frame = wk1.log[p].frame]_vars

\* the second frame scored exactly the threshold: it was skipped, the run
\* ended with the views of the first frame only and its history of one score
C22_Witness ==
  \E w \in 1..Len(workers) :
    LET wk == workers[w] IN
    /\ wk.pc = "done"
    /\ Len(jobs) = 1
    /\ Len(wk.motion) = 2
    /\ wk.motion[1].score = -1
    /\ wk.motion[2] = [job |-> 1, frame |-> 1, score |-> jobs[1].adaptive_threshold10,
                       skipped |-> TRUE]
    /\ Len(wk.log) = 2
    /\ wk.log[1].accepted /\ ~wk.log[2].accepted
    /\ wk.blur_history = <<wk.log[1].score>>
    /\ wk.consecutive_blur_skips = 1
    /\ wk.last_extracted_frame = 0

\* score < 0.6 * mean(history), history not empty
BelowRecent(score, history) ==
  Len(history) > 0 /\ 10 * score * Len(history) < 6 * SumSeq(history)

\* C23: in smart blur mode an attempt that is not force-accepted is rejected
\* exactly when its score is below the floor threshold or the history is
\* non-empty and the score is below 0.6 * mean(history); in standard mode it
\* is rejected exactly when the score is below the threshold, and history
\* and skip counter stay as they are.
C23_RejectionRule ==
  [][\A w \in 1..Len(workers) :
       LET wk == workers[w]
           wk1 == workers'[w]
           e == wk1.log[Len(wk1.log)]
           job == jobs[e.job]
       IN (Len(wk1.log) = Len(wk.log) + 1 /\ job.blur_filter_enabled) =>
            IF job.smart_blur_enabled
              THEN ~e.forced =>
                     (~e.accepted) = (e.score < job.blur_threshold
                                        \/ BelowRecent(e.score, wk.blur_history))
              ELSE /\ (~e.accepted) = (e.score < job.blur_threshold)
                   /\ ~e.forced
                   /\ wk1.blur_history = wk.blur_history
                   /\ wk1.consecutive_blur_skips = wk.consecutive_blur_skips]_vars

\* smart mode rejected a score above the floor for being below 0.6 of the
\* mean of the history
C23_Witness ==
  \E w \in 1..Len(workers) :
    LET wk == workers[w]
        e == wk.log[Len(wk.log)]
    IN /\ wk.log # <<>>
       /\ AfterLastAttempt(wk)
       /\ SmartEntry(e)
       /\ e.score >= jobs[e.job].blur_threshold
       /\ ~e.accepted
       /\ BelowRecent(e.score, wk.blur_history)

\* the scores of the accepted attempts of job i, in order
RECURSIVE AcceptedScores(_, _)
AcceptedScores(log, i) ==
  IF log = <<>> THEN <<>>
  ELSE LET e == log[Len(log)]
           before == AcceptedScores(SubSeq(log, 1, Len(log) - 1), i)
       IN IF e.job = i /\ e.accepted THEN Append(before, e.score) ELSE before

\* the last n elements of a sequence
LastN(q, n) == IF Len(q) <= n THEN q ELSE SubSeq(q, Len(q) - n + 1, Len(q))

\* C24: in smart blur mode the history holds exactly the scores of the most
\* recent accepted attempts of the job (natural or forced), in acceptance
\* order, never more than 10; a rejected attempt leaves it as it was.
C24_HistoryRecent ==
  \A w \in 1..Len(workers) :
    LET wk == workers[w] IN
    (/\ wk.pc \in {"while", "read", "view", "return"}
     /\ jobs[wk.i].blur_filter_enabled /\ jobs[wk.i].smart_blur_enabled) =>
       /\ Len(wk.blur_history) <= 10
       /\ wk.blur_history = LastN(AcceptedScores(wk.log, wk.i), 10)

\* twelve attempts, eleven accepted and one rejected: the first accepted
\* score has left the history
C24_Witness ==
  \E w \in 1..Len(workers) :
    LET wk == workers[w] IN
    /\ wk.pc = "return"
    /\ Len(wk.log) = 12
    /\ Len(AcceptedScores(wk.log, 1)) = 11
    /\ Len(wk.blur_history) = 10
    /\ wk.blur_history # SubSeq(AcceptedScores(wk.log, 1), 1, 10)

\* ------------------------------------------------------------------------
\* The extraction interval
\* ------------------------------------------------------------------------
\* max(1, value) frames, or max(1, round(fps * value)) for seconds
RoundedInterval(job) ==
  IF job.interval_unit = "Frames"
    THEN Max(10, job.interval10) \div 10
    ELSE Max(1, (job.fps100 * job.interval10 + 500) \div 1000)

\* C25 as claimed: the interval is max(1, value) frames, or fps * value
\* rounded to the nearest integer and at least 1 for seconds (30 for 29.97
\* fps and 1 s); a frame is considered exactly when its index is a multiple
\* of the interval.
C25_IntervalRounded ==
  \A w \in 1..Len(workers) :
    LET wk == workers[w] IN
    /\ \A p \in 1..Len(wk.log) :
         wk.log[p].frame % RoundedInterval(jobs[wk.log[p].job]) = 0
    /\ \A i \in 1..Len(jobs) :
         (GatesOff(jobs[i]) /\ Emitted(wk, "job_finished", i)) =>
           \A f \in Considered(jobs[i].nframes, RoundedInterval(jobs[i])), v \in Maps(jobs[i]) :
             \E p \in 1..Len(wk.log) :
               wk.log[p].job = i /\ wk.log[p].frame = f /\ wk.log[p].view = v

\* ------------------------------------------------------------------------
\* The AI gate without a detector
\* ------------------------------------------------------------------------
\* C26: a worker whose detector model could not be loaded passes every view
\* through the AI gate in every ai_mode: a view that passed the blur gate is
\* written under its image name with the image the gate was handed, no mask
\* file is written, and a job that reached the gate reports no error.
C26_DetectorPassthrough ==
  \A w \in 1..Len(workers) :
    LET wk == workers[w] IN
    ~wk.model_loaded =>
      \A p \in 1..Len(wk.log) :
        LET en == wk.log[p]
            job == jobs[en.job]
        IN /\ en.ai = [img |-> "image", extra |-> "None"]
           /\ en.accepted =>
                /\ en.written = SaveName(job, en.frame, en.view)
                /\ job.dir_ok =>
                     [dir |-> job.stem, name |-> en.written] \in files
           /\ [dir |-> job.stem, name |-> MaskName(job, en.frame, en.view)] \notin files
           /\ ~Emitted(wk, "error_occurred", en.job)

\* a job that asks for masks, with the blur filter on, ran to its end on a
\* worker without detector: one view was rejected as blurry, another written
C26_Witness ==
  \E w \in 1..Len(workers) :
    LET wk == workers[w] IN
    /\ ~wk.model_loaded
    /\ wk.ai_service
    /\ jobs[1].ai_mode = "Generate Mask"
    /\ jobs[1].blur_filter_enabled
    /\ Emitted(wk, "job_finished", 1)
    /\ \E p, q \in 1..Len(wk.log) :
         /\ ~wk.log[p].accepted
         /\ wk.log[q].accepted
         /\ [dir |-> jobs[1].stem, name |-> wk.log[q].written] \in files

\* ------------------------------------------------------------------------
\* The null fix
\* ------------------------------------------------------------------------
\* the numbers of a payload of EdgeFixes
Unpacked(payload) == CHOOSE f \in EdgeFixes : f.payload = payload

Abs(x) == IF x < 0 THEN -x ELSE x

\* both coordinates within 0.0001 of zero
NearOrigin(f) == Abs(f.lat) <= 10 /\ Abs(f.lon) <= 10

\* latitude in -90..90 and longitude in -180..180
InRange(f) == ~f.nan /\ Abs(f.lat) <= 9000000 /\ Abs(f.lon) <= 18000000

\* the payloads of the GPS records of a stream of FixStreams, in order
RecordsOf(raw) == <<Slice(raw, 4, 20), Slice(raw, 28, 20)>>

KeptRecord(payload) == InRange(Unpacked(payload)) /\ ~NearOrigin(Unpacked(payload))

\* C27: parse_camm_data returns no sample whose latitude and longitude are
\* both within 0.0001 of zero, and it returns, in order, every decoded GPS
\* record whose fix is in range with a coordinate farther than 0.0001 from
\* zero.
C27_NullFixDropped ==
  camm.pc = "done" =>
    /\ \A x \in 1..Len(camm.result) :
         ~NearOrigin(Unpacked(camm.result[x].lat \o camm.result[x].lon \o camm.result[x].alt))
    /\ [x \in 1..Len(camm.result) |->
          camm.result[x].lat \o camm.result[x].lon \o camm.result[x].alt]
         = SelectSeq(RecordsOf(camm.raw), KeptRecord)

\* (0.0001, 0.00005) was dropped and (0.00005, 3.0) after it was returned
C27_Witness ==
  /\ camm.pc = "done"
  /\ Unpacked(RecordsOf(camm.raw)[1]).lat = 10
  /\ Unpacked(RecordsOf(camm.raw)[1]).lon = 5
  /\ Unpacked(RecordsOf(camm.raw)[2]).lat = 5
  /\ Len(camm.result) = 1
  /\ camm.result[1].lat \o camm.result[1].lon \o camm.result[1].alt = RecordsOf(camm.raw)[2]

\* ------------------------------------------------------------------------
\* The order of the signals
\* ------------------------------------------------------------------------
IsJobSignal(sig) == sig.name \in {"job_started", "job_finished", "error_occurred"}

\* job_started(1), its job_finished or error_occurred, job_started(2), ...
Alternating(js) ==
  \A k \in 1..Len(js) :
    IF k % 2 = 1
      THEN js[k] = Sig("job_started", (k + 1) \div 2)
      ELSE js[k].name \in {"job_finished", "error_occurred"} /\ js[k].arg = k \div 2

SignalOrder(wk) ==
  /\ Alternating(SelectSeq(wk.sig, IsJobSignal))
  /\ \A k \in 1..Len(wk.sig) : wk.sig[k].name = "finished" => k = Len(wk.sig)
  /\ wk.pc = "done" <=> (wk.sig # <<>> /\ wk.sig[Len(wk.sig)].name = "finished")
  /\ wk.pc = "done" => Len(SelectSeq(wk.sig, IsJobSignal)) % 2 = 0

\* C28: a run emits job_started(i) in queue order, each followed by exactly
\* one of job_finished(i) or error_occurred before the next job_started, and
\* it ends, whether the jobs completed, failed or stop() was called before or
\* during the run, by emitting finished exactly once, after every other
\* signal.
C28_SignalOrder ==
  /\ [](\A w \in 1..Len(workers) : SignalOrder(workers[w]))
  /\ <>(\A w \in 1..Len(workers) : workers[w].pc = "done")

\* stop() was called during the first of two jobs, which failed: the run
\* ended with finished and the second job was never started
C28_Witness ==
  \E w \in 1..Len(workers) :
    LET wk == workers[w] IN
    /\ wk.pc = "done"
    /\ Len(jobs) = 2
    /\ wk.stop_seen.pc \in {"setup", "raise"}
    /\ wk.sig = <<Sig("job_started", 1), Sig("error_occurred", 1), Sig("finished", 0)>>

\* ------------------------------------------------------------------------
\* Progress
\* ------------------------------------------------------------------------
\* the values of every job are non-decreasing in emission order
ProgressMonotone ==
  \A w \in 1..Len(workers) :
    LET sig == workers[w].sig IN
    \A k \in 1..Len(sig), l \in 1..Len(sig) :
      (/\ k <= l
       /\ sig[k].name = "progress_updated"
       /\ sig[l].name = "progress_updated"
       /\ \A m \in k..l : sig[m].name # "job_started") => sig[k].arg <= sig[l].arg

\* C29 as claimed: every value emitted through progress_updated during a job
\* lies in 0..100 and the values of a job are non-decreasing in emission
\* order, for every video, including one whose reported frame count is zero
\* or smaller than the number of frames read.
C29_ProgressBounded ==
  /\ \A w \in 1..Len(workers) :
       \A k \in 1..Len(workers[w].sig) :
         workers[w].sig[k].name = "progress_updated" => workers[w].sig[k].arg \in 0..100
  /\ ProgressMonotone

\* ------------------------------------------------------------------------
\* File names
\* ------------------------------------------------------------------------
\* the positions in a worker's log of the view attempts of job i that wrote
\* an image, and of those that wrote a mask as well
ImageWrites(wk, i) == {p \in 1..Len(wk.log) : wk.log[p].job = i /\ wk.log[p].written # <<>>}

MaskWrites(wk, i) == {p \in ImageWrites(wk, i) : wk.log[p].ai.extra = "mask"}

\* C30: in the realityscan and simple naming modes two different (frame
\* index, view) pairs of a job never get the same image name or the same mask
\* name, and no mask name is an image name, so every write of the job makes a
\* file of its own.
C30_NamesDistinct ==
  \A w \in 1..Len(workers), i \in 1..Len(jobs) :
    LET wk == workers[w]
        job == jobs[i]
        attempts == {p \in 1..Len(wk.log) : wk.log[p].job = i}
        image(p) == SaveName(job, wk.log[p].frame, wk.log[p].view)
        mask(p) == MaskName(job, wk.log[p].frame, wk.log[p].view)
    IN job.naming_mode \in {"realityscan", "simple"} =>
         /\ Cardinality({image(p) : p \in attempts}) = Cardinality(attempts)
         /\ Cardinality({mask(p) : p \in attempts}) = Cardinality(attempts)
         /\ {mask(p) : p \in attempts} \cap {image(p) : p \in attempts} = {}
         /\ job.dir_ok =>
              Cardinality({f \in files : f.dir = job.stem})
                = Cardinality(ImageWrites(wk, i)) + Cardinality(MaskWrites(wk, i))

\* a job in simple naming that asks for masks wrote two views of each of two
\* frames, with their masks
C30_Witness ==
  \E w \in 1..Len(workers) :
    /\ jobs[1].naming_mode = "simple"
    /\ Emitted(workers[w], "job_finished", 1)
    /\ Cardinality(MaskWrites(workers[w], 1)) = 4
    /\ \E p, q \in MaskWrites(workers[w], 1) :
         workers[w].log[p].frame # workers[w].log[q].frame
    /\ Cardinality(files) = 8

====
